---------------------------- MODULE Spec2Model ----------------------------
(***************************************************************************)
(* Model of the ASS resampling engines of limenime_app.                    *)
(*                                                                         *)
(* The repository holds several independent implementations of the same    *)
(* engine.  Definitions are prefixed by the implementation they model:     *)
(*   (none) / A_  the application, src/unnamed/part_000                    *)
(*   V2_          src/limesub/resampleASSv2.go                             *)
(*   P1_          src/unnamed/part_001 (ProcessASS)                        *)
(*   P2_          the first program of src/unnamed/part_002                *)
(*                                                                         *)
(* Text is modelled as TLA+ strings, character by character.  A float64 is *)
(* modelled exactly, as a rational: a parsed numeral is an integer number  *)
(* of thousandths and a ratio is a fraction n/d.  Go's regexp captures     *)
(* sub[k] are sub[k+1] here (TLA+ sequences start at 1) and only the       *)
(* captures the code reads are kept.                                       *)
(*                                                                         *)
(* A value that is computed once and read several times is bound by        *)
(* Only({F(x) : x \in {e}}): e is evaluated, then F is applied to it.      *)
(***************************************************************************)
EXTENDS Integers, Sequences, FiniteSets, TLC

VARIABLES fn, arg, srcW, srcH, pc, cur, passes, tick, disk, output, shown

vars == <<fn, arg, srcW, srcH, pc, cur, passes, tick, disk, output, shown>>

-----------------------------------------------------------------------------
(* Characters and strings                                                  *)

Digits == {"0", "1", "2", "3", "4", "5", "6", "7", "8", "9"}

UpperCase == "ABCDEFGHIJKLMNOPQRSTUVWXYZ"

LowerCase == "abcdefghijklmnopqrstuvwxyz"

Letters == {SubSeq(UpperCase, k, k) : k \in 1..26} \cup {SubSeq(LowerCase, k, k) : k \in 1..26}

At(s, i) == IF i >= 1 /\ i <= Len(s) THEN SubSeq(s, i, i) ELSE ""

From(s, i) == SubSeq(s, i, Len(s))

IsDigit(c) == c \in Digits

Spaces == {" ", "\t", "\n", "\r", "\f"}

IsSpace(c) == c \in Spaces

IsLetter(c) == c \in Letters

Min(S) == CHOOSE x \in S : \A y \in S : x <= y

Max(S) == CHOOSE x \in S : \A y \in S : x >= y

\* the k-th smallest element of a set of integers
Nth(S, k) == CHOOSE x \in S : Cardinality({y \in S : y < x}) = k - 1

\* the element of a one-element set
Only(S) == CHOOSE x \in S : TRUE

LowerOf ==
    [c \in {SubSeq(UpperCase, k, k) : k \in 1..26} |->
        SubSeq(LowerCase, CHOOSE k \in 1..26 : c = SubSeq(UpperCase, k, k),
                          CHOOSE k \in 1..26 : c = SubSeq(UpperCase, k, k))]

ToLowerCh(c) == IF c \in DOMAIN LowerOf THEN LowerOf[c] ELSE c

\* strings.ToLower (by halves, to keep the evaluation shallow)
RECURSIVE ToLower(_)
ToLower(s) ==
    IF Len(s) <= 1 THEN ToLowerCh(s)
    ELSE ToLower(SubSeq(s, 1, Len(s) \div 2))
         \o ToLower(SubSeq(s, Len(s) \div 2 + 1, Len(s)))

HasPrefix(s, p) == Len(s) >= Len(p) /\ SubSeq(s, 1, Len(p)) = p

HasSuffix(s, p) == Len(s) >= Len(p) /\ SubSeq(s, Len(s) - Len(p) + 1, Len(s)) = p

\* strings.Index from position i: the first index >= i where sub starts, 0 if none
\* (searched in windows of doubling width w)
RECURSIVE IndexScan(_, _, _, _)
IndexScan(s, sub, i, w) ==
    LET last == Len(s) - Len(sub) + 1
        hi   == IF i + w - 1 < last THEN i + w - 1 ELSE last
        c    == {j \in i..hi : SubSeq(s, j, j + Len(sub) - 1) = sub}
    IN  IF i > last THEN 0
        ELSE IF c # {} THEN Min(c)
        ELSE IndexScan(s, sub, hi + 1, 2 * w)

IndexFrom(s, sub, i) == IndexScan(s, sub, i, 8)

Index(s, sub) == IndexScan(s, sub, 1, 8)

Contains(s, sub) == IndexScan(s, sub, 1, 8) # 0

\* the least j >= i where (the character at j is in set) differs from
\* inside, Len(s) + 1 when there is none (windows of doubling width w)
RECURSIVE ScanEnd(_, _, _, _, _)
ScanEnd(s, i, set, inside, w) ==
    LET hi == IF i + w - 1 < Len(s) THEN i + w - 1 ELSE Len(s)
        c  == {j \in i..hi : (SubSeq(s, j, j) \in set) # inside}
    IN  IF i > Len(s) THEN Len(s) + 1
        ELSE IF c # {} THEN Min(c)
        ELSE ScanEnd(s, hi + 1, set, inside, 2 * w)

\* the index after the longest run from i of characters outside stop
RunEnd(s, i, stop) == ScanEnd(s, i, stop, FALSE, 8)

\* the index after the longest run from i of characters inside cls
ClassEnd(s, i, cls) == ScanEnd(s, i, cls, TRUE, 8)

SpaceEnd(s, i) == ScanEnd(s, i, Spaces, TRUE, 8)

DigitsEnd(s, i) == ScanEnd(s, i, Digits, TRUE, 8)

TrimLeftSpace(s) == SubSeq(s, ScanEnd(s, 1, Spaces, TRUE, 8), Len(s))

\* strings.TrimRight(s, cutset)
RECURSIVE TrimEnd(_, _, _, _)
TrimEnd(s, cs, hi, w) ==
    LET lo == IF hi - w + 1 > 1 THEN hi - w + 1 ELSE 1
        c  == {j \in lo..hi : SubSeq(s, j, j) \notin cs}
    IN  IF hi < 1 THEN 0
        ELSE IF c # {} THEN Max(c)
        ELSE TrimEnd(s, cs, lo - 1, 2 * w)

TrimRightSet(s, cs) == SubSeq(s, 1, TrimEnd(s, cs, Len(s), 4))

\* strings.TrimLeft(s, cutset)
TrimLeftSet(s, cs) == SubSeq(s, ScanEnd(s, 1, cs, TRUE, 8), Len(s))

\* strings.TrimSpace: the text between the first and the last character
\* that is not a space
TrimSpace(s) ==
    SubSeq(s, ScanEnd(s, 1, Spaces, TRUE, 8), TrimEnd(s, Spaces, Len(s), 4))

\* the pieces of s between the positions of the ascending sequence cuts
Pieces(s, cuts) ==
    [k \in 1..(Len(cuts) + 1) |->
        SubSeq(s, IF k = 1 THEN 1 ELSE cuts[k - 1] + 1,
                  IF k = Len(cuts) + 1 THEN Len(s) ELSE cuts[k] - 1)]

\* the elements of a set of integers in ascending order
RECURSIVE Ascending(_)
Ascending(S) ==
    IF S = {} THEN <<>>
    ELSE LET x == CHOOSE x \in S : \A y \in S : x <= y
         IN  <<x>> \o Ascending(S \ {x})

\* strings.SplitN(s, sep, n) for a one-character sep; n <= 0 means no limit
SplitN(s, sep, n) ==
    LET c == Ascending({j \in 1..Len(s) : SubSeq(s, j, j) = sep})
    IN  Pieces(s, IF n > 0 /\ n - 1 < Len(c) THEN SubSeq(c, 1, n - 1) ELSE c)

Split(s, sep) ==
    Pieces(s, Ascending({j \in 1..Len(s) : SubSeq(s, j, j) = sep}))

\* the concatenation of parts[lo..hi] (by halves)
RECURSIVE FlattenRange(_, _, _)
FlattenRange(parts, lo, hi) ==
    IF lo > hi THEN ""
    ELSE IF lo = hi THEN parts[lo]
    ELSE FlattenRange(parts, lo, (lo + hi) \div 2)
         \o FlattenRange(parts, (lo + hi) \div 2 + 1, hi)

Flatten(parts) == FlattenRange(parts, 1, Len(parts))

\* strings.Join
Join(parts, sep) ==
    FlattenRange([k \in 1..Len(parts) |-> IF k = 1 THEN parts[k] ELSE sep \o parts[k]],
                 1, Len(parts))

\* s with the text old at index i (0: nowhere) replaced by new
ReplaceAt(s, i, old, new) ==
    IF i = 0 \/ old = "" THEN s
    ELSE SubSeq(s, 1, i - 1) \o new \o SubSeq(s, i + Len(old), Len(s))

\* strings.Replace(s, old, new, 1): the first occurrence only
ReplaceFirst(s, old, new) == ReplaceAt(s, IndexScan(s, old, 1, 8), old, new)

\* replace every non-overlapping occurrence of the literal old from index
\* from on
RECURSIVE ReplaceAllFrom(_, _, _, _)
ReplaceAllFrom(s, old, new, from) ==
    Only({IF i = 0 \/ old = "" THEN SubSeq(s, from, Len(s))
          ELSE SubSeq(s, from, i - 1) \o new \o ReplaceAllFrom(s, old, new, i + Len(old)) :
          i \in {IndexScan(s, old, from, 8)}})

\* strings.ReplaceAll
ReplaceAllLit(s, old, new) == ReplaceAllFrom(s, old, new, 1)

\* strings.Fields: the maximal runs of non-space characters
Fields(s) ==
    LET starts == Ascending({j \in 1..Len(s) :
                      SubSeq(s, j, j) \notin Spaces
                      /\ (j = 1 \/ SubSeq(s, j - 1, j - 1) \in Spaces)})
        ends   == Ascending({j \in 1..Len(s) :
                      SubSeq(s, j, j) \notin Spaces
                      /\ (j = Len(s) \/ SubSeq(s, j + 1, j + 1) \in Spaces)})
    IN  [k \in 1..Len(starts) |-> SubSeq(s, starts[k], ends[k])]

-----------------------------------------------------------------------------
(* Numbers: strconv.ParseFloat, fmt.Sprintf("%.Nf"), strconv.Itoa          *)

Abs(x) == IF x < 0 THEN -x ELSE x

RECURSIVE GCD(_, _)
GCD(a, b) == IF b = 0 THEN a ELSE GCD(b, a % b)

\* n / d in lowest terms, g the greatest common divisor of n and d
Lowest(n, d, g) == [n |-> n \div g, d |-> d \div g]

\* target / source as a fraction in lowest terms
Ratio(target, source) == Lowest(target, source, GCD(target, source))

RatMul(p, q) == Lowest(p.n * q.n, p.d * q.d, GCD(p.n * q.n, p.d * q.d))

RatDiv(p, q) == Lowest(p.n * q.d, p.d * q.n, GCD(p.n * q.d, p.d * q.n))

RECURSIVE Pow10(_)
Pow10(k) == IF k = 0 THEN 1 ELSE 10 * Pow10(k - 1)

\* the unit of a parsed numeral: thousandths
Milli == Pow10(3)

DigitVal(c) == CHOOSE v \in 0..9 : SubSeq("0123456789", v + 1, v + 1) = c

RECURSIVE Itoa(_)
Itoa(n) ==
    IF n < 0 THEN "-" \o Itoa(-n)
    ELSE IF n < 10 THEN SubSeq("0123456789", n + 1, n + 1)
    ELSE Itoa(n \div 10) \o SubSeq("0123456789", (n % 10) + 1, (n % 10) + 1)

RECURSIVE DigitsValue(_)
DigitsValue(s) ==
    IF s = "" THEN 0
    ELSE 10 * DigitsValue(SubSeq(s, 1, Len(s) - 1)) + DigitVal(SubSeq(s, Len(s), Len(s)))

\* the fraction digits as thousandths (digits beyond the third are outside
\* the inputs of this model and are dropped)
FracMilli(s) == DigitsValue(SubSeq(s \o "000", 1, 3))

\* an unsigned decimal numeral whose integer digits end before e1 and whose
\* fraction ends before e2
ParseParts(body, e1, e2) ==
    IF e2 = Len(body) + 1 /\ (e1 > 1 \/ e2 > e1 + 1)
    THEN [ok |-> TRUE,
          m  |-> DigitsValue(SubSeq(body, 1, e1 - 1)) * Milli
                 + FracMilli(IF e2 > e1 + 1 THEN SubSeq(body, e1 + 1, e2 - 1) ELSE "")]
    ELSE [ok |-> FALSE, m |-> 0]

ParseUnsigned(body) ==
    Only({ParseParts(body, e1, IF At(body, e1) = "."
                               THEN ScanEnd(body, e1 + 1, Digits, TRUE, 8) ELSE e1) :
          e1 \in {ScanEnd(body, 1, Digits, TRUE, 8)}})

\* strconv.ParseFloat on decimal notation: [ok, m] with m the value in
\* thousandths; ok = FALSE is the err # nil result (value 0)
ParseFloat(str) ==
    Only({[ok |-> p.ok, m |-> IF At(str, 1) = "-" THEN -p.m ELSE p.m] :
          p \in {ParseUnsigned(IF At(str, 1) \in {"-", "+"}
                               THEN SubSeq(str, 2, Len(str)) ELSE str)}})

\* round-half-even of a / b for a >= 0, b > 0: what fmt does with the exact
\* value of a float64 (the inputs of the model make every tie binary-exact)
RoundDiv(a, b) ==
    LET q == a \div b
        r == a % b
    IN  IF 2 * r > b \/ (2 * r = b /\ q % 2 = 1) THEN q + 1 ELSE q

\* the digits of x, at least prec of them
PadDigits(t, prec) == SubSeq("000000", 1, prec - Len(t)) \o t

PadFrac(x, prec) == PadDigits(Itoa(x), prec)

\* the text of q / 10^prec with prec fraction digits, p10 = 10^prec
FixedDigits(neg, q, p10, prec) ==
    (IF neg THEN "-" ELSE "") \o Itoa(q \div p10)
    \o (IF prec > 0 THEN "." \o PadFrac(q % p10, prec) ELSE "")

\* fmt.Sprintf("%.<prec>f", v) for v = (m / 1000) * (r.n / r.d)
FormatFixed(m, r, prec) ==
    FixedDigits(m < 0,
                IF prec >= 3 THEN RoundDiv(Abs(m) * r.n * Pow10(prec - 3), r.d)
                ELSE RoundDiv(Abs(m) * r.n, r.d * Pow10(3 - prec)),
                Pow10(prec), prec)

\* whether v = (m / 1000) * (r.n / r.d) is a whole number
IsWhole(m, r) == (m * r.n) % (r.d * Milli) = 0

\* int(v + 0.5) and int(math.Floor(v + 0.5)): Go's int() truncates toward
\* zero, math.Floor rounds down
TruncHalf(m, r) ==
    LET a == 2 * m * r.n + r.d * Milli
        b == 2 * r.d * Milli
    IN  IF a >= 0 THEN a \div b ELSE -((-a) \div b)

FloorHalf(m, r) ==
    LET a == 2 * m * r.n + r.d * Milli
        b == 2 * r.d * Milli
    IN  a \div b

-----------------------------------------------------------------------------
(* Regular expressions.  A pattern is a sequence of elements, each matched *)
(* greedily at the current position (Go's leftmost-first match, for the    *)
(* patterns of this program, which never need to give characters back      *)
(* except where an element says so).  An alternation or an optional group  *)
(* is a sequence of patterns tried in order at the same position.  An      *)
(* element is a record: its kind k, whether it is a capture group, and     *)
(* what its kind needs.                                                    *)

\* literal text
Lit(t) == [k |-> "lit", cap |-> FALSE, t |-> t]

\* literal text under (?i); t is lower case
ILit(t) == [k |-> "ilit", cap |-> FALSE, t |-> t]

\* literal text inside a capture group
CLit(t) == [k |-> "lit", cap |-> TRUE, t |-> t]

\* the longest run, of at least min characters, of characters that are in
\* set (inside) or not in set (~inside)
Run(set, inside, min, cap) ==
    [k |-> "run", cap |-> cap, set |-> set, inside |-> inside, min |-> min]

\* \s*
WS == Run(Spaces, TRUE, 0, FALSE)

\* ([-\d.]+)
NumB == Run(Digits \cup {"-", "."}, TRUE, 1, TRUE)

\* ([^)]*)
NotRP == Run({")"}, FALSE, 0, TRUE)

\* ([^)]+)
NotRP1 == Run({")"}, FALSE, 1, TRUE)

\* ([^()]*)
NotParens == Run({"(", ")"}, FALSE, 0, TRUE)

\* [^\\}]+ , inside the match but not captured
NotBsBrace == Run({"\\", "}"}, FALSE, 1, FALSE)

\* [^\\}]*
NotBsBrace0 == Run({"\\", "}"}, FALSE, 0, FALSE)

\* [^}]*
NotBrace == Run({"}"}, FALSE, 0, FALSE)

\* ([0-9]+)
Digits1 == Run(Digits, TRUE, 1, TRUE)

\* ([lrvbt])
SideCh == [k |-> "one", cap |-> TRUE, set |-> {"l", "r", "v", "b", "t"}]

\* (-?\d+(\.\d+)?)
NumA == [k |-> "numA", cap |-> TRUE]

\* ([+-]?\d*\.?\d+)
NumC == [k |-> "numC", cap |-> TRUE]

\* -?[\d.]+
NumD == [k |-> "numD", cap |-> FALSE]

\* ([^)]+?)\s* in front of \)
LazyRP == [k |-> "lazyrp", cap |-> TRUE]

\* (m[^\)]+)
MPath == [k |-> "mpath", cap |-> TRUE]

\* (\s*,\s*[^)]*)
MoveTail == [k |-> "movetail", cap |-> TRUE]

\* ^ under (?m)
Bol == [k |-> "bol", cap |-> FALSE]

\* \s*$ under (?m)
WsEol == [k |-> "wseol", cap |-> FALSE]

\* .+\] , the rest of a section header
SectionTail == [k |-> "sectiontail", cap |-> FALSE]

\* i + 1 when the character at i is in signs, else i
SignEnd(s, i, signs) == IF At(s, i) \in signs THEN i + 1 ELSE i

\* the index after ".digits" at e1, e1 itself when that is not there
FracEnd(s, e1) ==
    Only({IF At(s, e1) = "." /\ e2 > e1 + 1 THEN e2 ELSE e1 :
          e2 \in {ScanEnd(s, e1 + 1, Digits, TRUE, 8)}})

\* \d+(\.\d+)? at i0 (needInt) or \d*\.?\d+ at i0 (~needInt): the index
\* after the match, 0 when there is none
NumeralEnd(s, i0, needInt) ==
    Only({IF e = i0 \/ (needInt /\ At(s, i0) \notin Digits) THEN 0 ELSE e :
          e \in {FracEnd(s, ScanEnd(s, i0, Digits, TRUE, 8))}})

\* e when it is past lo, else 0
Past(e, lo) == IF e > lo THEN e ELSE 0

\* ([^)]+?)\s* in front of \): the capture stops before the spaces that
\* precede the first ")" but keeps at least one character; rp is the index
\* of that ")" and last the index of the last character in front of it that
\* is not a space
LazyCut(s, i, rp, last) ==
    IF rp > Len(s) \/ rp = i THEN 0
    ELSE IF last < i THEN i + 1
    ELSE last + 1

LazyEnd(s, i) ==
    Only({LazyCut(s, i, rp, TrimEnd(s, Spaces, rp - 1, 4)) :
          rp \in {ScanEnd(s, i, {")"}, FALSE, 8)}})

\* \s*$ under (?m) at i: the spaces are taken greedily and given back until
\* the position is the end of the text or in front of a line feed
WsEolEnd(s, i) ==
    Only({IF c = {} THEN 0 ELSE Max(c) :
          c \in {{e \in i..ScanEnd(s, i, Spaces, TRUE, 8) :
                     e = Len(s) + 1 \/ SubSeq(s, e, e) = "\n"}}})

\* .+\] at i: up to the last "]" of the line that has a character in front
SectionTailEnd(s, i) ==
    Only({IF c = {} THEN 0 ELSE Max(c) + 1 :
          c \in {{e \in (i + 1)..(ScanEnd(s, i, {"\n"}, FALSE, 8) - 1) :
                     SubSeq(s, e, e) = "]"}}})

\* the index after the match of element e at i (i itself for an empty
\* match), 0 when e does not match at i
ElemEnd(e, s, i) ==
    CASE e.k = "lit" ->
            IF i + Len(e.t) - 1 <= Len(s) /\ SubSeq(s, i, i + Len(e.t) - 1) = e.t
            THEN i + Len(e.t) ELSE 0
      [] e.k = "ilit" ->
            IF i + Len(e.t) - 1 <= Len(s)
               /\ ToLower(SubSeq(s, i, i + Len(e.t) - 1)) = e.t
            THEN i + Len(e.t) ELSE 0
      [] e.k = "run" -> Past(ScanEnd(s, i, e.set, e.inside, 8), i + e.min - 1)
      [] e.k = "one" -> IF At(s, i) \in e.set THEN i + 1 ELSE 0
      [] e.k = "numA" -> NumeralEnd(s, SignEnd(s, i, {"-"}), TRUE)
      [] e.k = "numC" -> NumeralEnd(s, SignEnd(s, i, {"+", "-"}), FALSE)
      [] e.k = "numD" ->
            Past(ScanEnd(s, SignEnd(s, i, {"-"}), Digits \cup {"."}, TRUE, 8),
                 SignEnd(s, i, {"-"}))
      [] e.k = "lazyrp" -> LazyEnd(s, i)
      [] e.k = "mpath" ->
            IF At(s, i) = "m" THEN Past(ScanEnd(s, i + 1, {")"}, FALSE, 8), i + 1) ELSE 0
      [] e.k = "movetail" ->
            IF At(s, SpaceEnd(s, i)) = ","
            THEN ScanEnd(s, SpaceEnd(s, i) + 1, {")"}, FALSE, 8) ELSE 0
      [] e.k = "bol" -> IF i = 1 \/ At(s, i - 1) = "\n" THEN i ELSE 0
      [] e.k = "wseol" -> WsEolEnd(s, i)
      [] e.k = "sectiontail" -> SectionTailEnd(s, i)

NoMatch == [ok |-> FALSE, start |-> 0, end |-> 0, sub |-> <<>>]

\* match pattern p from its k-th element at position i
RECURSIVE MatchFrom(_, _, _, _, _, _)
MatchFrom(p, k, s, i0, i, caps) ==
    IF k > Len(p)
    THEN [ok |-> TRUE, start |-> i0, end |-> i, sub |-> <<SubSeq(s, i0, i - 1)>> \o caps]
    ELSE Only({IF j = 0 THEN NoMatch
               ELSE MatchFrom(p, k + 1, s, i0, j,
                              IF p[k].cap THEN Append(caps, SubSeq(s, i, j - 1)) ELSE caps) :
               j \in {ElemEnd(p[k], s, i)}})

\* the first pattern of ps that matches at i
RECURSIVE MatchAt(_, _, _)
MatchAt(ps, s, i) ==
    IF Len(ps) = 0 THEN NoMatch
    ELSE Only({IF m.ok THEN m ELSE MatchAt(Tail(ps), s, i) :
               m \in {MatchFrom(ps[1], 1, s, i, i, <<>>)}})

\* whether the first element of some pattern of ps can start at j: a
\* literal's first character, a line start; any other element may
CanStart(ps, s, j) ==
    \E k \in 1..Len(ps) :
        CASE ps[k][1].k = "lit" -> SubSeq(s, j, j) = SubSeq(ps[k][1].t, 1, 1)
          [] ps[k][1].k = "ilit" -> ToLowerCh(SubSeq(s, j, j)) = SubSeq(ps[k][1].t, 1, 1)
          [] ps[k][1].k = "bol" -> j = 1 \/ SubSeq(s, j - 1, j - 1) = "\n"
          [] OTHER -> TRUE

\* the leftmost non-empty match of ps in s from i on, NoMatch when there is
\* none (searched in windows of doubling width w)
RECURSIVE FirstMatch(_, _, _, _)
FirstMatch(ps, s, i, w) ==
    IF i > Len(s) THEN NoMatch
    ELSE Only({IF c # {} THEN CHOOSE m \in c : \A x \in c : m.start <= x.start
               ELSE FirstMatch(ps, s, i + w, 2 * w) :
               c \in {{m \in {MatchAt(ps, s, j) :
                                 j \in {j \in i..(IF i + w - 1 < Len(s)
                                                  THEN i + w - 1 ELSE Len(s)) :
                                          CanStart(ps, s, j)}} :
                         m.end > m.start}}})

\* regexp.FindAllStringSubmatchIndex: the successive non-overlapping matches
RECURSIVE FindAllFrom(_, _, _)
FindAllFrom(ps, s, i) ==
    Only({IF m.ok THEN <<m>> \o FindAllFrom(ps, s, m.end) ELSE <<>> :
          m \in {FirstMatch(ps, s, i, 8)}})

FindAll(ps, s) == FindAllFrom(ps, s, 1)

\* regexp.MatchString
MatchString(ps, s) == FirstMatch(ps, s, 1, 8).ok

\* regexp.FindStringSubmatch: the leftmost match (NoMatch if none)
FindStringSubmatch(ps, s) == FirstMatch(ps, s, 1, 8)

\* the whole-match texts of a sequence of matches
Texts(ms) == [k \in 1..Len(ms) |-> ms[k].sub[1]]

\* regexp.FindAllString
FindAllString(ps, s) == Texts(FindAllFrom(ps, s, 1))

\* s with the k-th match of ms replaced by Rep(match, k), the text between
\* the matches copied
Rebuild(s, ms, Rep(_, _)) ==
    IF Len(ms) = 0 THEN s
    ELSE FlattenRange([k \in 1..Len(ms) |->
                          SubSeq(s, IF k = 1 THEN 1 ELSE ms[k - 1].end, ms[k].start - 1)
                          \o Rep(ms[k], k)], 1, Len(ms))
         \o SubSeq(s, ms[Len(ms)].end, Len(s))

\* s with its k-th match replaced by Rep(match, k)
ReplaceIndexed(ps, s, Rep(_, _)) == Rebuild(s, FindAllFrom(ps, s, 1), Rep)

\* regexp.ReplaceAllStringFunc
ReplaceAllStringFunc(ps, s, Rep(_)) ==
    Rebuild(s, FindAllFrom(ps, s, 1), LAMBDA m, k : Rep(m))

-----------------------------------------------------------------------------
(* The application, src/unnamed/part_000                                   *)

targetPlayResX == 1920

targetPlayResY == 1080

targetFontName == "Basic Comical NC"

resStyleLine ==
    "Style: res,Basic Comical NC,1080,&H00FFFFFF,&H000000FF,&H00000000,&H00000000,0,0,0,0,0,0,0,0,1,2,2,2,10,10,10,1"

\* each part with the spaces around it trimmed
TrimEach(parts) == [k \in 1..Len(parts) |-> TrimSpace(parts[k])]

\* splitNPreserveTrailing(s, ',', n): at most n parts, each trimmed
splitNPreserveTrailing(s, sep, n) ==
    IF n <= 0 THEN <<s>> ELSE TrimEach(SplitN(s, sep, n))

\* scaleFloatFormat(f * ratio), f in thousandths
scaleFloatFormat(f, ratio) ==
    IF IsWhole(f, ratio) THEN Itoa((f * ratio.n) \div (ratio.d * Milli))
    ELSE TrimRightSet(TrimRightSet(FormatFixed(f, ratio, 2), {"0"}), {"."})

\* the text of a numeral that parsed as p, scaled; the numeral itself when it
\* did not parse
scaleParsed(numStr, p, scale) ==
    IF p.ok THEN scaleFloatFormat(p.m, scale) ELSE numStr

scaleNumberString(numStr, scale) == scaleParsed(numStr, ParseFloat(numStr), scale)

A_reNumber == <<<<NumA>>>>

scaleXYList(s, ratioX, ratioY) ==
    ReplaceIndexed(A_reNumber, s,
        LAMBDA m, k : scaleNumberString(m.sub[1], IF (k - 1) % 2 = 0 THEN ratioX ELSE ratioY))

reFs == <<<<Lit("\\fs"), NumA>>>>

reFsp == <<<<Lit("\\fsp"), NumA>>>>

rePos ==
    <<<<Lit("\\pos("), WS, NumA, WS, Lit(","), WS, NumA, WS, Lit(")")>>>>

reOrg ==
    <<<<Lit("\\org("), WS, NumA, WS, Lit(","), WS, NumA, WS, Lit(")")>>>>

reMove ==
    <<<<Lit("\\move("), WS, NumA, WS, Lit(","), WS, NumA, WS, Lit(","), WS, NumA,
        WS, Lit(","), WS, NumA, NotRP, Lit(")")>>>>

reClip ==
    <<<<Lit("\\"), CLit("iclip"), Lit("("), WS, NotRP, Lit(")")>>,
      <<Lit("\\"), CLit("clip"), Lit("("), WS, NotRP, Lit(")")>>>>

rePixel ==
    <<<<Lit("\\"), CLit("bord"), NumA>>, <<Lit("\\"), CLit("shad"), NumA>>,
      <<Lit("\\"), CLit("be"), NumA>>, <<Lit("\\"), CLit("blur"), NumA>>>>

reMargins ==
    <<<<Lit("\\margins("), WS, NumA, WS, Lit(","), WS, NumA, WS, Lit(","), WS, NumA,
        WS, Lit(","), WS, NumA, WS, Lit(")")>>>>

reMarginSingle == <<<<Lit("\\margin"), SideCh, NumA>>>>

reFax == <<<<Lit("\\fax"), NumA>>>>

reFay == <<<<Lit("\\fay"), NumA>>>>

reT == <<<<Lit("\\t("), NotRP, Lit(")")>>>>

\* the rectangle branch of the clip rewrite: nums[k], wherever its text
\* occurs in out, is replaced by its scaled value, for k = from .. 4 in turn
RECURSIVE clipRectFrom(_, _, _, _, _)
clipRectFrom(out, nums, ratioX, ratioY, from) ==
    IF from > 4 THEN out
    ELSE clipRectFrom(ReplaceAllLit(out, nums[from],
                          scaleNumberString(nums[from],
                                            IF from % 2 = 1 THEN ratioX ELSE ratioY)),
                      nums, ratioX, ratioY, from + 1)

clipRect(content, nums, ratioX, ratioY) == clipRectFrom(content, nums, ratioX, ratioY, 1)

\* the argument of a clip, rewritten: nums are its numerals
clipContent(content, nums, ratioX, ratioY) ==
    IF ~IsLetter(At(content, 1)) /\ Len(nums) >= 4
    THEN clipRect(content, nums, ratioX, ratioY)
    ELSE scaleXYList(content, ratioX, ratioY)

\* the replacement of a \clip(...) or \iclip(...) match
clipRewrite(m, ratioX, ratioY) ==
    Only({"\\" \o m.sub[2] \o "("
          \o clipContent(content, FindAllString(A_reNumber, content), ratioX, ratioY)
          \o ")" :
          content \in {TrimSpace(m.sub[3])}})

\* xyRewrite with the two ratios exchanged: a variant that C4 has to reject
xyRewrite_swapped(tag, m, ratioX, ratioY) ==
    tag \o scaleNumberString(m.sub[2], ratioY) \o ","
        \o scaleNumberString(m.sub[3], ratioX) \o ")"

\* the replacement of a \pos(x,y) or \org(x,y) match
xyRewrite(tag, m, ratioX, ratioY) ==
    tag \o scaleNumberString(m.sub[2], ratioX) \o ","
        \o scaleNumberString(m.sub[3], ratioY) \o ")"

\* the replacement of a \move(x1,y1,x2,y2<tail>) match
moveRewrite(m, ratioX, ratioY) ==
    "\\move(" \o scaleNumberString(m.sub[2], ratioX) \o ","
              \o scaleNumberString(m.sub[3], ratioY) \o ","
              \o scaleNumberString(m.sub[4], ratioX) \o ","
              \o scaleNumberString(m.sub[5], ratioY) \o m.sub[6] \o ")"

\* the replacement of a \margins(l,r,t,b) match
marginsRewrite(m, ratioX, ratioY) ==
    "\\margins(" \o scaleNumberString(m.sub[2], ratioX) \o ","
                 \o scaleNumberString(m.sub[3], ratioX) \o ","
                 \o scaleNumberString(m.sub[4], ratioY) \o ","
                 \o scaleNumberString(m.sub[5], ratioY) \o ")"

\* the replacement of a match of <tag><number>, the number scaled by ratio
tagNumber(tag, numStr, ratio) == tag \o scaleNumberString(numStr, ratio)

\* scaleTags up to its \t loop: the pattern of the k-th tag rewrite, in the
\* order of the code
scaleTagsRe(k) ==
    CASE k = 1 -> reFs
      [] k = 2 -> reFsp
      [] k = 3 -> rePos
      [] k = 4 -> reOrg
      [] k = 5 -> reMove
      [] k = 6 -> reClip
      [] k = 7 -> rePixel
      [] k = 8 -> reMargins
      [] k = 9 -> reMarginSingle
      [] k = 10 -> reFax
      [] k = 11 -> reFay

\* the tag and the ratio of the rewrites that scale one number
scaleTagsTag(k, m) ==
    CASE k = 1 -> "\\fs"
      [] k = 2 -> "\\fsp"
      [] k = 7 -> "\\" \o m.sub[2]
      [] k = 9 -> "\\margin" \o m.sub[2]
      [] k = 10 -> "\\fax"
      [] k = 11 -> "\\fay"

scaleTagsRatio(k, m, ratioX, ratioY) ==
    CASE k \in {1, 2, 7, 11} -> ratioY
      [] k = 9 -> IF m.sub[2] \in {"l", "r"} THEN ratioX ELSE ratioY
      [] k = 10 -> ratioX

\* the replacement the k-th rewrite makes of its match m
scaleTagsRep(k, m, ratioX, ratioY) ==
    CASE k \in {3, 4} -> xyRewrite(IF k = 3 THEN "\\pos(" ELSE "\\org(", m, ratioX, ratioY)
      [] k = 5 -> moveRewrite(m, ratioX, ratioY)
      [] k = 6 -> clipRewrite(m, ratioX, ratioY)
      [] k = 8 -> marginsRewrite(m, ratioX, ratioY)
      [] OTHER -> tagNumber(scaleTagsTag(k, m),
                            IF k \in {7, 9} THEN m.sub[3] ELSE m.sub[2],
                            scaleTagsRatio(k, m, ratioX, ratioY))

\* the k-th tag rewrite
scaleTagsStep(k, s, ratioX, ratioY) ==
    ReplaceAllStringFunc(scaleTagsRe(k), s, LAMBDA m : scaleTagsRep(k, m, ratioX, ratioY))

\* the rewrites k, k + 1, ... 11 applied in turn
RECURSIVE scaleTagsSteps(_, _, _, _)
scaleTagsSteps(k, s, ratioX, ratioY) ==
    IF k > 11 THEN s
    ELSE Only({scaleTagsSteps(k + 1, t, ratioX, ratioY) :
                 t \in {scaleTagsStep(k, s, ratioX, ratioY)}})

scaleTagsRewrites(content, ratioX, ratioY) == scaleTagsSteps(1, content, ratioX, ratioY)

\* the replacement of a \t(...) match whose argument is inner, idx the index
\* of its first backslash (0: none).  The recursive call gets text without
\* ")" (the capture is [^)]*), in which reT cannot match, so the callee's own
\* loop runs no pass and the call returns its tag rewrites.
tRewrite(inner, idx, ratioX, ratioY) ==
    "\\t(" \o (IF idx > 0 THEN SubSeq(inner, 1, idx - 1) ELSE "")
    \o scaleTagsRewrites(IF idx > 0 THEN SubSeq(inner, idx, Len(inner)) ELSE inner,
                         ratioX, ratioY)
    \o ")"

\* one pass of the \t loop of scaleTags
scaleTagsPass(s, ratioX, ratioY) ==
    ReplaceAllStringFunc(reT, s,
        LAMBDA m : tRewrite(m.sub[2], IndexScan(m.sub[2], "\\", 1, 8), ratioX, ratioY))

\* scaleTags(content) as a call from processASS: the text after the tag
\* rewrites, and whether the \t loop that follows never ends: it runs while
\* reT matches, and a pass leaves every \t(...) it rewrites in place
scaleTagsCall(t) == [text |-> t, loops |-> MatchString(reT, t)]

defaultPlayResX == 1280

defaultPlayResY == 720

\* the value of a numeral that parsed as p, or def
valueOr(p, def) == IF p.ok THEN p.m ELSE def

\* parseFloatSafe(s, def), def and the result in thousandths
parseFloatSafe(s, def) == valueOr(ParseFloat(TrimSpace(s)), def)

rePlayResX == <<<<Bol, WS, ILit("playresx"), WS, Lit(":"), WS, Digits1, WsEol>>>>

rePlayResY == <<<<Bol, WS, ILit("playresy"), WS, Lit(":"), WS, Digits1, WsEol>>>>

reScriptInfo == <<<<Bol, Lit("[Script Info]"), WsEol>>>>

reSection == <<<<Bol, Lit("["), SectionTail>>>>

reEventsHeader == <<<<Bol, ILit("[events]"), WsEol>>>>

reOverride == <<<<Lit("{"), NotBrace, Lit("}")>>>>

reFn == <<<<Lit("\\fn"), NotBsBrace>>>>

\* processASS, step "Normalize line endings"
normalizeNewlines(text) == ReplaceAllLit(ReplaceAllLit(text, "\r\n", "\n"), "\r", "\n")

\* processASS, origX or origY: the first PlayRes line's number, or the default
origRes(re, text, def) ==
    Only({IF m.ok THEN parseFloatSafe(m.sub[2], def * Milli) ELSE def * Milli :
          m \in {FindStringSubmatch(re, text)}})

\* text with line inserted after the match si of the [Script Info] header,
\* or with a header and line put in front when there is no such match
insertPlayRes(text, si, line) ==
    IF si.ok
    THEN SubSeq(text, 1, si.end - 1) \o "\n" \o line \o "\n" \o SubSeq(text, si.end, Len(text))
    ELSE "[Script Info]\n" \o line \o "\n" \o text

\* processASS, "Replace or insert PlayResX / PlayResY" for one of the two
replaceOrInsertPlayRes(re, key, target, text) ==
    Only({IF Len(ms) > 0
          THEN Rebuild(text, ms, LAMBDA m, k : key \o ": " \o Itoa(target))
          ELSE insertPlayRes(text, FindStringSubmatch(reScriptInfo, text),
                             key \o ": " \o Itoa(target)) :
          ms \in {FindAll(re, text)}})

defaultFormatFields ==
    <<"name", "fontname", "fontsize", "primarycolour", "secondarycolour",
      "outlinecolour", "backcolour", "bold", "italic", "underline", "strikeout",
      "scalex", "scaley", "spacing", "angle", "borderstyle", "outline", "shadow",
      "alignment", "marginl", "marginr", "marginv", "encoding">>

\* what the styles loop takes a line of the block for
lineKindOf(lower) ==
    IF HasPrefix(lower, "format:") THEN "format"
    ELSE IF HasPrefix(lower, "style:") THEN "style"
    ELSE ""

lineKind(ln) == lineKindOf(ToLower(TrimSpace(ln)))

IsFormatLine(ln) == lineKind(ln) = "format"

IsStyleLine(ln) == lineKind(ln) = "style"

\* each part trimmed and in lower case
lowerFields(parts) == [k \in 1..Len(parts) |-> ToLower(TrimSpace(parts[k]))]

\* the fields of the last Format: line of the block, lower case and trimmed
\* (the default order when the block has none); fs are the indices of its
\* Format: lines
blockFormatFields(lines, fs) ==
    IF fs = {} THEN defaultFormatFields
    ELSE lowerFields(Split(TrimSpace(SubSeq(lines[Max(fs)], Len("format:") + 1,
                                            Len(lines[Max(fs)]))), ","))

\* the first index of name in fields, 0 when it is not there (the code's -1)
fieldIdx(fields, name) ==
    IF \E i \in 1..Len(fields) : fields[i] = name
    THEN CHOOSE i \in 1..Len(fields) :
             fields[i] = name /\ \A j \in 1..(i - 1) : fields[j] # name
    ELSE 0

Pad(parts, n) ==
    [k \in 1..(IF n > Len(parts) THEN n ELSE Len(parts)) |->
        IF k <= Len(parts) THEN parts[k] ELSE ""]

\* the new fontsize field of a Style line, oldFs the old one trimmed
styleFontsizeOf(old, oldFs, p, ratioY) ==
    IF oldFs # "" /\ p.ok THEN scaleFloatFormat(p.m, ratioY) ELSE old

styleFontsize(old, ratioY) ==
    Only({styleFontsizeOf(old, oldFs, ParseFloat(oldFs), ratioY) :
          oldFs \in {TrimSpace(old)}})

\* a Style line rebuilt from its fields
styleFields(parts, fontIdx, fsIdx, ratioY) ==
    "Style: "
    \o Join([k \in 1..Len(parts) |->
                IF k = fontIdx THEN targetFontName
                ELSE IF k = fsIdx THEN styleFontsize(parts[k], ratioY)
                ELSE parts[k]], ",")

\* processASS, the rewrite of one Style: line
styleLine(ln, formatFields, ratioY) ==
    styleFields(Pad(splitNPreserveTrailing(
                        TrimSpace(SubSeq(ln, IndexScan(ToLower(ln), "style:", 1, 8) + 6,
                                         Len(ln))),
                        ",", Len(formatFields)),
                    Len(formatFields)),
                fieldIdx(formatFields, "fontname"), fieldIdx(formatFields, "fontsize"),
                ratioY)

InsertAt(lines, at, ln) ==
    [k \in 1..(Len(lines) + 1) |->
        IF k < at THEN lines[k] ELSE IF k = at THEN ln ELSE lines[k - 1]]

\* the lines of the block with the res style inserted at index at, unless
\* a line of the block is that style already
insertResStyle(lines, at) ==
    IF \E i \in 1..Len(lines) : TrimSpace(lines[i]) = resStyleLine THEN lines
    ELSE IF at > Len(lines) THEN Append(lines, resStyleLine)
    ELSE InsertAt(lines, at, resStyleLine)

\* the lines of the block, kinds[i] what line i is taken for: the Style:
\* lines rewritten and the res style inserted after the last of them
styledLines(lines, kinds, ratioY) ==
    LET styles == {i \in 1..Len(lines) : kinds[i] = "style"}
        fmts   == {i \in 1..Len(lines) : kinds[i] = "format"}
    IN  insertResStyle(
            [i \in 1..Len(lines) |->
                IF kinds[i] = "style"
                THEN styleLine(lines[i], blockFormatFields(lines, fmts), ratioY)
                ELSE lines[i]],
            IF styles # {} THEN Max(styles) + 1
            ELSE IF fmts # {} THEN Min(fmts) + 1
            ELSE 2)

\* processASS, the [V4+ Styles] block
stylesBlock(block, ratioY) ==
    Only({Join(styledLines(lines, [i \in 1..Len(lines) |-> lineKind(lines[i])], ratioY),
               "\n") :
          lines \in {Split(block, "\n")}})

\* the length of the block that starts sub: up to the second section header
stylesBlockLen(sub) ==
    Only({IF Len(locs) >= 2 THEN locs[2].start - 1 ELSE Len(sub) :
          locs \in {FindAll(reSection, sub)}})

\* text with its block of n characters at hIdx processed
stylesAt(text, hIdx, n, ratioY) ==
    SubSeq(text, 1, hIdx - 1) \o stylesBlock(SubSeq(text, hIdx, hIdx + n - 1), ratioY)
    \o SubSeq(text, hIdx + n, Len(text))

\* processASS, step 2
processStyles(text, ratioY) ==
    Only({IF hIdx = 0 THEN text
          ELSE stylesAt(text, hIdx, stylesBlockLen(SubSeq(text, hIdx, Len(text))), ratioY) :
          hIdx \in {IndexScan(ToLower(text), "[v4+ styles]", 1, 8)}})

\* the content of an override block ov = "{...}" with its \fn replaced
overrideInside(ov) ==
    ReplaceAllStringFunc(reFn, SubSeq(ov, 2, Len(ov) - 1),
                         LAMBDA m : "\\fn" \o targetFontName)

\* the calls of scaleTags for the override blocks ms of a text field
overrideCalls(ms, ratioX, ratioY) ==
    [k \in 1..Len(ms) |->
        scaleTagsCall(scaleTagsRewrites(overrideInside(ms[k].sub[1]), ratioX, ratioY))]

\* the text field with its override blocks ms replaced by what the calls
\* rs return
overridesReplaced(textField, ms, rs) ==
    [text  |-> Rebuild(textField, ms, LAMBDA m, k : "{" \o rs[k].text \o "}"),
     loops |-> \E k \in 1..Len(ms) : rs[k].loops]

\* the text field of a Dialogue line, rewritten
eventTextField(textField, ms, ratioX, ratioY) ==
    overridesReplaced(textField, ms, overrideCalls(ms, ratioX, ratioY))

\* a Dialogue line of 10 parts rebuilt, t the rewrite of its text field
eventJoined(parts, t) ==
    [text  |-> Join([k \in 1..10 |-> IF k = 10 THEN t.text ELSE parts[k]], ","),
     loops |-> t.loops]

eventParts(ln, parts, ratioX, ratioY) ==
    IF Len(parts) < 10 THEN [text |-> ln, loops |-> FALSE]
    ELSE eventJoined(parts,
             eventTextField(parts[10], FindAll(reOverride, parts[10]), ratioX, ratioY))

\* processASS, the rewrite of one line of the [Events] block: the new line,
\* and whether the rewrite calls scaleTags on content it loops on
eventLine(ln, ratioX, ratioY) ==
    IF HasPrefix(ToLower(TrimSpace(ln)), "dialogue:")
    THEN eventParts(ln, splitNPreserveTrailing(ln, ",", 10), ratioX, ratioY)
    ELSE [text |-> ln, loops |-> FALSE]

\* the length of the block that rest starts with: up to the next section
\* header
eventsBlockLen(rest) ==
    Only({IF Len(nexts) >= 1 THEN nexts[1].start - 1 ELSE Len(rest) :
          nexts \in {FindAll(reSection, rest)}})

\* the [Events] block of the text: [found, start, len], from the end of the
\* header match to the next section header
eventsBlock(text) ==
    Only({[found |-> loc.ok, start |-> loc.end,
           len   |-> IF loc.ok THEN eventsBlockLen(SubSeq(text, loc.end, Len(text))) ELSE 0] :
          loc \in {FindStringSubmatch(reEventsHeader, text)}})

\* the text with the lines of its block b replaced by their rewrites rs
eventsJoined(text, b, rs) ==
    [text  |-> SubSeq(text, 1, b.start - 1)
               \o Join([i \in 1..Len(rs) |-> rs[i].text], "\n")
               \o SubSeq(text, b.start + b.len, Len(text)),
     loops |-> \E i \in 1..Len(rs) : rs[i].loops]

\* the rewrites of the lines of the block
eventLines(lines, ratioX, ratioY) ==
    [i \in 1..Len(lines) |-> eventLine(lines[i], ratioX, ratioY)]

eventsAt(text, b, ratioX, ratioY) ==
    IF b.found
    THEN eventsJoined(text, b,
             eventLines(Split(SubSeq(text, b.start, b.start + b.len - 1), "\n"),
                        ratioX, ratioY))
    ELSE [text |-> text, loops |-> FALSE]

\* processASS, step 3
processEvents(text, ratioX, ratioY) == eventsAt(text, eventsBlock(text), ratioX, ratioY)

ensureTrailingNewline(text) == IF HasSuffix(text, "\n") THEN text ELSE text \o "\n"

\* processASS, "Replace or insert PlayResX / PlayResY" and step 2
headText(text, ratioY) ==
    processStyles(
        replaceOrInsertPlayRes(rePlayResY, "PlayResY", targetPlayResY,
            replaceOrInsertPlayRes(rePlayResX, "PlayResX", targetPlayResX, text)),
        ratioY)

\* the text of processASS after steps 1 and 2, and the two ratios
headOf(text, ratioX, ratioY) ==
    [text |-> headText(text, ratioY), ratioX |-> ratioX, ratioY |-> ratioY]

processHead(raw) ==
    Only({headOf(text,
                 Ratio(targetPlayResX * Milli, origRes(rePlayResX, text, defaultPlayResX)),
                 Ratio(targetPlayResY * Milli, origRes(rePlayResY, text, defaultPlayResY))) :
          text \in {normalizeNewlines(raw)}})

\* processASS after its steps: e is what step 3 gave
processTail(e) == [text |-> ensureTrailingNewline(e.text), loops |-> e.loops]

\* processASS of the application on the file content raw: the text it
\* returns when every call of scaleTags returns, and whether it reaches a
\* call of scaleTags that never returns
processASS(raw) ==
    Only({processTail(processEvents(h.text, h.ratioX, h.ratioY)) :
          h \in {processHead(raw)}})

-----------------------------------------------------------------------------
(* src/limesub/resampleASSv2.go                                            *)

destX == 1920

destY == 1080

\* the digits body with its sign
AtoiOf(neg, body) ==
    IF body # "" /\ DigitsEnd(body, 1) = Len(body) + 1
    THEN [ok |-> TRUE, v |-> IF neg THEN -DigitsValue(body) ELSE DigitsValue(body)]
    ELSE [ok |-> FALSE, v |-> 0]

\* strconv.Atoi: [ok, v]
Atoi(s) ==
    AtoiOf(At(s, 1) = "-", IF At(s, 1) \in {"-", "+"} THEN SubSeq(s, 2, Len(s)) ELSE s)

\* math.Sqrt of a fraction whose numerator and denominator are squares (the
\* resolutions of this model give no other)
SqrtRat(r) ==
    [n |-> CHOOSE k \in 0..r.n : k * k = r.n, d |-> CHOOSE k \in 0..r.d : k * k = r.d]

NotParsed == [ok |-> FALSE, m |-> 0]

\* the number after the colon of a line cut in two at its first colon
V2_afterColon(parts) ==
    IF Len(parts) = 2 THEN ParseFloat(TrimSpace(parts[2])) ELSE NotParsed

\* the PlayRes value of a trimmed line, when it starts with key
V2_playVal(trim, key) ==
    IF HasPrefix(trim, key) THEN V2_afterColon(SplitN(trim, ":", 2)) ELSE NotParsed

\* the last of the values that parsed; 0 when there is none
V2_lastOk(vals, c) ==
    [found |-> c # {}, m |-> IF c = {} THEN 0 ELSE vals[Max(c)].m]

V2_lastVal(vals) == V2_lastOk(vals, {i \in 1..Len(vals) : vals[i].ok})

\* processASS, "1) baca PlayRes sumber": the value of the last line that
\* starts with key and has a number after its colon; 0 when there is none
V2_srcPlay(lines, key) ==
    V2_lastVal([i \in 1..Len(lines) |-> V2_playVal(TrimSpace(lines[i]), key)])

\* rm of processASS
V2_mean(rx, ry) == IF rx = ry THEN rx ELSE SqrtRat(RatMul(rx, ry))

\* rx, ry, rm, ar and needInsertPlayRes of processASS
V2_quad(rx, ry, ar, needInsert) ==
    [rx |-> rx, ry |-> ry, rm |-> V2_mean(rx, ry), ar |-> ar, needInsert |-> needInsert]

V2_scales(sx, sy, needInsert) ==
    V2_quad(Ratio(destX * Milli, sx), Ratio(destY * Milli, sy),
            RatDiv(Ratio(destX, destY), Ratio(sx, sy)), needInsert)

V2_ratiosOf(px, py) ==
    V2_scales(IF px.m = 0 \/ py.m = 0 THEN 1280 * Milli ELSE px.m,
              IF px.m = 0 \/ py.m = 0 THEN 720 * Milli ELSE py.m,
              ~(px.found /\ py.found))

V2_ratios(lines) ==
    V2_ratiosOf(V2_srcPlay(lines, "PlayResX"), V2_srcPlay(lines, "PlayResY"))

V2_IsCommand(tok) == Len(tok) = 1 /\ Contains("mnlbspc", ToLowerCh(tok))

\* whether token k is an x coordinate: the numbers since the last command
\* in front of it are even in number
V2_isX(nums, cmds, k) ==
    LET last == Max({j \in 1..(k - 1) : ~nums[j].ok /\ cmds[j]} \cup {0})
    IN  Cardinality({j \in (last + 1)..(k - 1) : nums[j].ok}) % 2 = 0

\* the tokens of a drawing rewritten, nums[k] what token k parses as and
\* cmds[k] whether it is a command
V2_drawOut(parts, nums, cmds, scaleX, scaleY) ==
    Join([k \in 1..Len(parts) |->
             IF nums[k].ok
             THEN FormatFixed(nums[k].m,
                              IF V2_isX(nums, cmds, k) THEN scaleX ELSE scaleY, 3)
             ELSE IF cmds[k] THEN ToLowerCh(parts[k])
             ELSE parts[k]], " ")

V2_drawTokens(parts, scaleX, scaleY) ==
    V2_drawOut(parts, [k \in 1..Len(parts) |-> ParseFloat(parts[k])],
               [k \in 1..Len(parts) |-> V2_IsCommand(parts[k])], scaleX, scaleY)

\* transformDrawing with both shifts 0
transformDrawing(drawing, scaleX, scaleY) == V2_drawTokens(Fields(drawing), scaleX, scaleY)

V2_reOverrideBlock == <<<<Lit("{"), NotBrace, Lit("}")>>>>

V2_rePos == <<<<Lit("\\pos("), NumB, Lit(","), WS, NumB, Lit(")")>>>>

V2_reMove ==
    <<<<Lit("\\move("), NumB, Lit(","), WS, NumB, Lit(","), WS, NumB, Lit(","), WS,
        NumB, Lit(","), NumB, Lit(","), NumB, Lit(")")>>,
      <<Lit("\\move("), NumB, Lit(","), WS, NumB, Lit(","), WS, NumB, Lit(","), WS,
        NumB, Lit(")")>>>>

V2_reOrg == <<<<Lit("\\org("), NumB, Lit(","), WS, NumB, Lit(")")>>>>

V2_reClipRect ==
    <<<<Lit("\\"), CLit("iclip"), Lit("("), NumB, Lit(","), WS, NumB, Lit(","), WS,
        NumB, Lit(","), WS, NumB, Lit(")")>>,
      <<Lit("\\"), CLit("clip"), Lit("("), NumB, Lit(","), WS, NumB, Lit(","), WS,
        NumB, Lit(","), WS, NumB, Lit(")")>>>>

V2_reClipVec ==
    <<<<Lit("\\"), CLit("iclip"), Lit("("), MPath, Lit(")")>>,
      <<Lit("\\"), CLit("clip"), Lit("("), MPath, Lit(")")>>>>

V2_reFS == <<<<Lit("\\fs"), NumB>>>>

V2_reBORD == <<<<Lit("\\bord"), NumB>>>>

V2_reXBORD == <<<<Lit("\\xbord"), NumB>>>>

V2_reYBORD == <<<<Lit("\\ybord"), NumB>>>>

V2_reSHAD == <<<<Lit("\\shad"), NumB>>>>

V2_reXSHAD == <<<<Lit("\\xshad"), NumB>>>>

V2_reYSHAD == <<<<Lit("\\yshad"), NumB>>>>

V2_reFSP == <<<<Lit("\\fsp"), NumB>>>>

V2_reFSCX == <<<<Lit("\\fscx"), NumB>>>>

V2_reFAX == <<<<Lit("\\fax("), NumB, Lit(")")>>>>

V2_reFAY == <<<<Lit("\\fay("), NumB, Lit(")")>>>>

V2_reNums == <<<<NumD>>>>

V2_reDrawSeq == <<<<ILit("m"), NotBsBrace>>>>

\* fmt.Sprintf("%.3f", v * r) for the numeral text (0 when it does not parse)
V2_f3(text, r) == FormatFixed(ParseFloat(text).m, r, 3)

\* strings.Replace(out, nums[i], "%.3f" of nums[i] scaled, 1) for
\* i = from .. Len(nums) in turn, even positions by sx and odd ones by sy
RECURSIVE V2_replaceEach(_, _, _, _, _)
V2_replaceEach(out, nums, sx, sy, from) ==
    IF from > Len(nums) THEN out
    ELSE Only({V2_replaceEach(o, nums, sx, sy, from + 1) :
                 o \in {ReplaceFirst(out, nums[from],
                            V2_f3(nums[from], IF (from - 1) % 2 = 0 THEN sx ELSE sy))}})

\* replaceCoordsWithShift with both shifts 0
replaceCoordsWithShift(s, nums, sx, sy) == V2_replaceEach(s, nums, sx, sy, 1)

\* the replacement of a \pos or \org match
V2_xyRewrite(tag, m, rx, ry) ==
    tag \o V2_f3(m.sub[2], rx) \o "," \o V2_f3(m.sub[3], ry) \o ")"

\* the replacement of a \move match: the four coordinates and nothing else
V2_moveRewrite(m, rx, ry) ==
    "\\move(" \o V2_f3(m.sub[2], rx) \o "," \o V2_f3(m.sub[3], ry) \o ","
              \o V2_f3(m.sub[4], rx) \o "," \o V2_f3(m.sub[5], ry) \o ")"

\* the coordinates to rewrite in a clip match: the four captures of a
\* rectangle, the numerals of a vector path
V2_clipNums(k, m) ==
    IF k = 15 THEN <<m.sub[3], m.sub[4], m.sub[5], m.sub[6]>>
    ELSE FindAllString(V2_reNums, m.sub[3])

\* the replacement of a clip match whose coordinates are nums: of a
\* rectangle (k = 15) the whole match with its coordinates replaced, of a
\* vector clip (k = 16) the path with its numerals replaced
V2_clipOut(k, m, nums, rx, ry) ==
    IF k = 15 THEN replaceCoordsWithShift(m.sub[1], nums, rx, ry)
    ELSE IF Len(nums) = 0 THEN m.sub[1]
    ELSE "\\" \o m.sub[2] \o "(" \o replaceCoordsWithShift(m.sub[3], nums, rx, ry) \o ")"

\* the replacement of a rectangle or a vector clip match
V2_clipRewrite(k, m, rx, ry) == V2_clipOut(k, m, V2_clipNums(k, m), rx, ry)

\* the replacement of a vector clip match
V2_clipVecRewrite(m, rx, ry) == V2_clipRewrite(16, m, rx, ry)

\* processASS, the pattern of the k-th rewrite of the content of an override
\* block, in the order of the code (the \fscy rewrite returns its match and
\* is left out)
V2_blockRe(k) ==
    CASE k = 1 -> V2_rePos
      [] k = 2 -> V2_reOrg
      [] k = 3 -> V2_reMove
      [] k = 4 -> V2_reFS
      [] k = 5 -> V2_reBORD
      [] k = 6 -> V2_reXBORD
      [] k = 7 -> V2_reYBORD
      [] k = 8 -> V2_reSHAD
      [] k = 9 -> V2_reXSHAD
      [] k = 10 -> V2_reYSHAD
      [] k = 11 -> V2_reFSP
      [] k = 12 -> V2_reFSCX
      [] k = 13 -> V2_reFAX
      [] k = 14 -> V2_reFAY
      [] k = 15 -> V2_reClipRect
      [] k = 16 -> V2_reClipVec
      [] k = 17 -> V2_reDrawSeq

\* the text written in front of the number by the rewrites of one number
V2_blockTag(k) ==
    CASE k = 4 -> "\\fs"
      [] k = 5 -> "\\bord"
      [] k = 6 -> "\\xbord"
      [] k = 7 -> "\\ybord"
      [] k = 8 -> "\\shad"
      [] k = 9 -> "\\xshad"
      [] k = 10 -> "\\yshad"
      [] k = 11 -> "\\fsp"
      [] k = 12 -> "\\fscx"
      [] k = 13 -> "\\\\fax("
      [] k = 14 -> "\\\\fay("

\* the ratio of the rewrites of one number
V2_blockRatio(k, q) ==
    CASE k \in {4, 7, 10, 11} -> q.ry
      [] k \in {6, 9} -> q.rx
      [] k \in {5, 8, 13, 14} -> q.rm
      [] k = 12 -> q.ar

\* the replacement the k-th rewrite makes of its match m
V2_blockRep(k, m, q) ==
    CASE k \in {1, 2} -> V2_xyRewrite(IF k = 1 THEN "\\pos(" ELSE "\\org(", m, q.rx, q.ry)
      [] k = 3 -> V2_moveRewrite(m, q.rx, q.ry)
      [] k \in {15, 16} -> V2_clipRewrite(k, m, q.rx, q.ry)
      [] k = 17 -> transformDrawing(TrimSpace(m.sub[1]), q.rx, q.ry)
      [] OTHER -> V2_blockTag(k) \o V2_f3(m.sub[2], V2_blockRatio(k, q))
                  \o (IF k \in {13, 14} THEN ")" ELSE "")

V2_blockStep(k, s, q) ==
    ReplaceAllStringFunc(V2_blockRe(k), s, LAMBDA m : V2_blockRep(k, m, q))

RECURSIVE V2_blockSteps(_, _, _)
V2_blockSteps(k, s, q) ==
    IF k > 17 THEN s
    ELSE Only({V2_blockSteps(k + 1, t, q) : t \in {V2_blockStep(k, s, q)}})

\* processASS, the rewrite of the content of one override block
V2_block(inside, q) == V2_blockSteps(1, inside, q)

\* int(v * r + 0.5) as text, v in thousandths
V2_round(m, r) == Itoa(TruncHalf(m, r))

\* int(v * r + 0.5) as text, v a whole number
V2_margin(v, r) == V2_round(v * Milli, r)

\* the k-th field of a Style: line, rewritten
V2_styleField(k, p, q) ==
    CASE k \in {3, 20, 21, 22} ->
            V2_round(ParseFloat(p).m, IF k \in {20, 21} THEN q.rx ELSE q.ry)
      [] k \in {12, 13, 14, 17, 18} ->
            V2_f3(p, IF k = 12 THEN q.ar ELSE IF k = 13 THEN Ratio(1, 1) ELSE q.ry)
      [] OTHER -> p

V2_styleParts(line, parts, q) ==
    IF Len(parts) >= 23
    THEN Join([k \in 1..Len(parts) |-> V2_styleField(k, parts[k], q)], ",")
    ELSE line

\* processASS, the rewrite of a Style: line inside [V4+ Styles]
V2_styleLine(line, q) == V2_styleParts(line, TrimEach(Split(line, ",")), q)

\* the k-th of the first eight fields of a Dialogue: line, rewritten
V2_dialogueHead(k, p, q) ==
    IF k \in {6, 7, 8}
    THEN V2_margin(Atoi(TrimSpace(p)).v, IF k = 8 THEN q.ry ELSE q.rx)
    ELSE p

\* the text of a Dialogue: line with its override blocks rewritten
V2_overrides(text, q) ==
    ReplaceAllStringFunc(V2_reOverrideBlock, text,
        LAMBDA m : "{" \o V2_block(SubSeq(m.sub[1], 2, Len(m.sub[1]) - 1), q) \o "}")

\* the ninth part of a Dialogue: line, cut at its first comma (idx) into
\* effect and text
V2_effectText(et, idx, q) ==
    (IF idx > 0 THEN SubSeq(et, 1, idx - 1) ELSE et) \o ","
    \o V2_overrides(IF idx > 0 THEN SubSeq(et, idx + 1, Len(et)) ELSE "", q)

V2_dialogueParts(line, parts, q) ==
    IF Len(parts) < 9 THEN line
    ELSE "Dialogue: " \o Join([k \in 1..8 |-> V2_dialogueHead(k, parts[k], q)], ",")
         \o "," \o V2_effectText(parts[9], Index(parts[9], ","), q)

\* processASS, the rewrite of a Dialogue: line inside [Events]
V2_dialogueLine(line, q) ==
    V2_dialogueParts(line,
        SplitN(TrimSpace(IF HasPrefix(line, "Dialogue:")
                         THEN SubSeq(line, 10, Len(line)) ELSE line), ",", 9),
        q)

\* the section a line is in: that of the last section header in front of
\* it; trims are the lines trimmed
V2_section(trims, i) ==
    LET hs == {j \in 1..(i - 1) : trims[j] \in {"[V4+ Styles]", "[Events]"}}
    IN  IF hs = {} THEN "" ELSE trims[Max(hs)]

\* processASS, the output lines for input line i
V2_outLine(lines, trims, i, q) ==
    IF trims[i] = "[V4+ Styles]"
    THEN (IF q.needInsert /\ \A j \in 1..(i - 1) : trims[j] # "[V4+ Styles]"
          THEN <<"PlayResX: 1920", "PlayResY: 1080">> ELSE <<>>) \o <<lines[i]>>
    ELSE IF trims[i] = "[Events]" THEN <<lines[i]>>
    ELSE IF HasPrefix(trims[i], "PlayResX") THEN <<"PlayResX: 1920">>
    ELSE IF HasPrefix(trims[i], "PlayResY") THEN <<"PlayResY: 1080">>
    ELSE IF HasPrefix(trims[i], "Style:") /\ V2_section(trims, i) = "[V4+ Styles]"
    THEN <<V2_styleLine(lines[i], q)>>
    ELSE IF HasPrefix(trims[i], "Dialogue:") /\ V2_section(trims, i) = "[Events]"
    THEN <<V2_dialogueLine(lines[i], q)>>
    ELSE <<lines[i]>>

V2_outLines(lines, i, q) == V2_outLine(lines, TrimEach(lines), i, q)

V2_Concat(seqs) ==
    LET F[k \in 0..Len(seqs)] == IF k = 0 THEN <<>> ELSE F[k - 1] \o seqs[k]
    IN  F[Len(seqs)]

V2_reFnTag == <<<<Lit("\\fn"), NotBsBrace0>>>>

\* limenimizerASS: what a trimmed line is taken for
V2_headerKind(trim) ==
    IF HasPrefix(trim, "[V4+ Styles]") THEN "styles"
    ELSE IF HasPrefix(trim, "[Events]") THEN "events"
    ELSE ""

V2_IsHeader(l) == V2_headerKind(TrimSpace(l)) # ""

\* limenimizerASS, the section line i is in: that of the last header in
\* front of it; kinds[j] is what line j is taken for
V2_limeSection(kinds, i) ==
    LET hs == {j \in 1..(i - 1) : kinds[j] # ""}
    IN  IF hs = {} THEN "" ELSE kinds[Max(hs)]

\* the line with its second comma-separated field made the font name
V2_limeParts(line, styleParts) ==
    IF Len(styleParts) >= 3
    THEN Join(<<styleParts[1], "Basic Comical NC", styleParts[3]>>, ",")
    ELSE line

\* limenimizerASS, the rewrite of a Style: line of the styles section
V2_limeStyle(line) == V2_limeParts(line, SplitN(line, ",", 3))

V2_resStyle ==
    "Style: res,Basic Comical NC,1080,&H00FFFFFF,&H000000FF,&H00000000,&H00000000,0,0,0,0,0,0,0,0,1,2,2,2,10,10,10,1"

\* a held-back line as it is written out
V2_heldLine(line) ==
    IF HasPrefix(TrimSpace(line), "Style:") THEN V2_limeStyle(line) ELSE line

\* the held-back style lines when line i (or, for i past the end, the end of
\* the input) is reached: the lines of the styles section since the last
\* [Events] header
V2_held(lines, kinds, i) ==
    LET ev == Max({j \in 1..(i - 1) : kinds[j] = "events"} \cup {0})
        c  == Ascending({j \in (ev + 1)..(i - 1) :
                            kinds[j] = "" /\ V2_limeSection(kinds, j) = "styles"})
    IN  IF Len(c) = 0 THEN <<>>
        ELSE [k \in 1..Len(c) |-> V2_heldLine(lines[c[k]])] \o <<V2_resStyle>>

\* limenimizerASS, the output lines for input line i; the lines of the
\* styles section are held back until [Events] or the end of the input
V2_limeOut(lines, kinds, i) ==
    IF kinds[i] = "styles" THEN <<lines[i]>>
    ELSE IF kinds[i] = "events" THEN V2_held(lines, kinds, i) \o <<lines[i]>>
    ELSE IF V2_limeSection(kinds, i) = "styles" THEN <<>>
    ELSE IF V2_limeSection(kinds, i) = "events" /\ HasPrefix(TrimSpace(lines[i]), "Dialogue:")
    THEN <<ReplaceAllStringFunc(V2_reFnTag, lines[i], LAMBDA m : "\\fnBasic Comical NC")>>
    ELSE <<lines[i]>>

\* the lines limenimizerASS writes for the lines of its input
V2_limeLines(lines, kinds) ==
    V2_Concat([i \in 1..(Len(lines) + 1) |->
                  IF i <= Len(lines) THEN V2_limeOut(lines, kinds, i)
                  ELSE V2_held(lines, kinds, i)])

limenimizerASS(input) ==
    Only({Join(V2_limeLines(lines, [i \in 1..Len(lines) |-> V2_headerKind(TrimSpace(lines[i]))]),
               "\n") :
          lines \in {Split(input, "\n")}})

\* the text processASS returns, body its output lines joined
V2_emit(body, prepend) ==
    IF prepend THEN "PlayResX: 1920\nPlayResY: 1080\n" \o body
    ELSE limenimizerASS(body)

V2_finish(lines, q) ==
    V2_emit(Join(V2_Concat([i \in 1..Len(lines) |-> V2_outLines(lines, i, q)]), "\n"),
            q.needInsert /\ ~\E j \in 1..Len(lines) : TrimSpace(lines[j]) = "[V4+ Styles]")

\* processASS of resampleASSv2.go: the text it returns for the file content
V2_processASS(input) ==
    Only({V2_finish(lines, V2_ratios(lines)) : lines \in {Split(input, "\n")}})

-----------------------------------------------------------------------------
(* src/unnamed/part_001: processEventText and what it calls                *)

\* "0" for the empty text
P1_orZero(s) == IF s = "" THEN "0" ELSE s

\* trimFloat(v) for v = (m / 1000) * (r.n / r.d)
trimFloat(m, r) ==
    P1_orZero(TrimRightSet(TrimRightSet(FormatFixed(m, r, 6), {"0"}), {"."}))

\* intRound(v) for v = (m / 1000) * (r.n / r.d)
intRound(m, r) == Itoa(FloorHalf(m, r))

\* trimFloat(v * r) for the numeral text (0 when it does not parse)
P1_scaled(text, r) == trimFloat(ParseFloat(text).m, r)

numberRe == <<<<NumC>>>>

P1_tag2(tag) ==
    <<<<ILit(tag), WS, Lit("("), WS, NumC, WS, Lit(","), WS, NumC, WS, Lit(")")>>>>

P1_rePos == P1_tag2("\\pos")

P1_reOrg == P1_tag2("\\org")

P1_reMove ==
    <<<<ILit("\\move"), WS, Lit("("), WS, NumC, WS, Lit(","), WS, NumC, WS, Lit(","),
        WS, NumC, WS, Lit(","), WS, NumC, MoveTail, Lit(")")>>,
      <<ILit("\\move"), WS, Lit("("), WS, NumC, WS, Lit(","), WS, NumC, WS, Lit(","),
        WS, NumC, WS, Lit(","), WS, NumC, Lit(")")>>>>

P1_reIClip == <<<<ILit("\\iclip"), WS, Lit("("), WS, NotRP, Lit(")")>>>>

P1_reClip == <<<<ILit("\\clip"), WS, Lit("("), WS, NotRP, Lit(")")>>>>

P1_tag1(tag) == <<<<ILit(tag), WS, NumC>>>>

P1_rePlevel == <<<<ILit("\\p"), WS, Digits1>>>>

\* the parts of splitByCommasN, cut the n-limited split of s
P1_commaParts(s, n, cut) ==
    IF n <= 1 THEN <<s>>
    ELSE IF Len(cut) < n THEN TrimEach(Split(s, ","))
    ELSE TrimEach(cut)

splitByCommasN(s, n) == P1_commaParts(s, n, SplitN(s, ",", n))

\* strings.Replace(out, nums[i], rep(i), 1) for i = from .. Len(nums) in
\* turn, rep(i) the trimFloat of nums[i] scaled by RX or RY by turns
RECURSIVE P1_replaceEach(_, _, _, _, _)
P1_replaceEach(out, nums, RX, RY, from) ==
    IF from > Len(nums) THEN out
    ELSE Only({P1_replaceEach(o, nums, RX, RY, from + 1) :
                 o \in {ReplaceFirst(out, nums[from],
                            P1_scaled(nums[from], IF (from - 1) % 2 = 0 THEN RX ELSE RY))}})

\* scaleXYAlternating(s, false, false)
scaleXYAlternating(s, RX, RY) ==
    P1_replaceEach(s, FindAllString(numberRe, s), RX, RY, 1)

\* tokenizePath: the fields of s with every letter made a field of its own
tokenizePath(s) ==
    Fields(Flatten([i \in 1..Len(s) |->
                      IF IsLetter(At(s, i)) THEN " " \o At(s, i) \o " " ELSE At(s, i)]))

\* the tokens rewritten, nums[k] what token k is as a number
P1_pathOut(tokens, nums, RX, RY) ==
    Join([k \in 1..Len(tokens) |->
             IF nums[k].ok
             THEN trimFloat(nums[k].m,
                      IF Cardinality({j \in 1..(k - 1) : nums[j].ok}) % 2 = 0
                      THEN RX ELSE RY)
             ELSE tokens[k]], " ")

scalePathTokens(tokens, RX, RY) ==
    P1_pathOut(tokens,
               [k \in 1..Len(tokens) |->
                   IF MatchString(numberRe, tokens[k]) THEN ParseFloat(tokens[k])
                   ELSE NotParsed],
               RX, RY)

P1_HasLetter(s) == \E j \in 1..Len(s) : IsLetter(At(s, j))

\* the path of a clip rewritten
P1_path(s, RX, RY) == scalePathTokens(tokenizePath(s), RX, RY)

\* the text between the parentheses of a rewritten clip: inside the trimmed
\* capture, two and four its splits at commas, level the scale level written
\* in front of the path of a vector clip that has one
P1_clipParts(inside, two, four, level, RX, RY) ==
    IF P1_HasLetter(inside)
    THEN IF Len(two) >= 2
         THEN level \o ", " \o P1_path(TrimSpace(two[2]), RX, RY)
         ELSE P1_path(inside, RX, RY)
    ELSE IF Len(four) >= 4
    THEN P1_scaled(four[1], RX) \o "," \o P1_scaled(four[2], RY) \o ","
         \o P1_scaled(four[3], RX) \o "," \o P1_scaled(four[4], RY)
    ELSE scaleXYAlternating(inside, RX, RY)

P1_clipInside(inside, two, level, RX, RY) ==
    P1_clipParts(inside, two, splitByCommasN(inside, 4), level, RX, RY)

\* P1_clipRewrite with the scale level of a vector clip multiplied by the
\* horizontal ratio: a variant that C8 has to reject
P1_clipRewrite_scaled(tag, m, RX, RY) ==
    Only({tag \o "(" \o P1_clipInside(TrimSpace(m.sub[2]), two,
                            P1_scaled(TrimSpace(two[1]), RX), RX, RY) \o ")" :
          two \in {splitByCommasN(TrimSpace(m.sub[2]), 2)}})

\* the replacement of a \clip or \iclip match, tag the text written in front
P1_clipRewrite(tag, m, RX, RY) ==
    Only({tag \o "(" \o P1_clipInside(TrimSpace(m.sub[2]), two,
                            TrimSpace(two[1]), RX, RY) \o ")" :
          two \in {splitByCommasN(TrimSpace(m.sub[2]), 2)}})

P1_xyRewrite(tag, m, RX, RY) ==
    tag \o "(" \o P1_scaled(m.sub[2], RX) \o "," \o P1_scaled(m.sub[3], RY) \o ")"

\* the end of a rewritten \move: what is left of the capture after the four
\* coordinates, without its leading commas
P1_moveRest(rest) ==
    IF rest # "" THEN "," \o TrimLeftSet(rest, {","}) \o ")" ELSE ")"

P1_moveRewrite(m, RX, RY) ==
    "\\move(" \o P1_scaled(m.sub[2], RX) \o "," \o P1_scaled(m.sub[3], RY) \o ","
    \o P1_scaled(m.sub[4], RX) \o "," \o P1_scaled(m.sub[5], RY)
    \o P1_moveRest(IF Len(m.sub) >= 6 THEN TrimSpace(m.sub[6]) ELSE "")

\* processOverrideContent, the tag of its k-th rewrite in the order of the
\* code
P1_contentTag(k) ==
    CASE k = 1 -> "\\pos"
      [] k = 2 -> "\\move"
      [] k = 3 -> "\\org"
      [] k = 4 -> "\\clip"
      [] k = 5 -> "\\iclip"
      [] k = 6 -> "\\fscx"
      [] k = 7 -> "\\fscy"
      [] k = 8 -> "\\fs"
      [] k = 9 -> "\\fsp"
      [] k = 10 -> "\\bord"
      [] k = 11 -> "\\shad"
      [] k = 12 -> "\\xbord"
      [] k = 13 -> "\\ybord"
      [] k = 14 -> "\\xshad"
      [] k = 15 -> "\\yshad"
      [] k = 16 -> "\\pbo"

\* the pattern of the k-th rewrite
P1_contentRe(k) ==
    CASE k = 1 -> P1_rePos
      [] k = 2 -> P1_reMove
      [] k = 3 -> P1_reOrg
      [] k = 4 -> P1_reClip
      [] k = 5 -> P1_reIClip
      [] OTHER -> P1_tag1(P1_contentTag(k))

\* the ratio of the k-th rewrite, one of those of a single number
P1_contentRatio(k, RX, RY) ==
    CASE k \in {6, 12, 14} -> RX
      [] k \in {10, 11} -> SqrtRat(RatMul(RX, RY))
      [] OTHER -> RY

\* the replacement the k-th rewrite makes of its match m
P1_contentRep(k, m, RX, RY) ==
    CASE k \in {1, 3} -> P1_xyRewrite(P1_contentTag(k), m, RX, RY)
      [] k = 2 -> P1_moveRewrite(m, RX, RY)
      [] k \in {4, 5} -> P1_clipRewrite(P1_contentTag(k), m, RX, RY)
      [] k = 8 -> "\\fs" \o intRound(ParseFloat(m.sub[2]).m, RY)
      [] OTHER -> P1_contentTag(k) \o P1_scaled(m.sub[2], P1_contentRatio(k, RX, RY))

P1_contentStep(k, s, RX, RY) ==
    ReplaceAllStringFunc(P1_contentRe(k), s, LAMBDA m : P1_contentRep(k, m, RX, RY))

RECURSIVE P1_contentSteps(_, _, _, _)
P1_contentSteps(k, s, RX, RY) ==
    IF k > 16 THEN s
    ELSE Only({P1_contentSteps(k + 1, t, RX, RY) : t \in {P1_contentStep(k, s, RX, RY)}})

\* the drawing level of a rewritten content: the number of its first \p
\* tag, 0 when it has none
P1_plevel(pl) == IF pl.ok THEN Atoi(pl.sub[2]).v ELSE 0

\* processOverrideContent: [content, plevel]
processOverrideContent(content, RX, RY) ==
    Only({[content |-> out, plevel |-> P1_plevel(FindStringSubmatch(P1_rePlevel, out))] :
          out \in {P1_contentSteps(1, content, RX, RY)}})

\* the text from..to outside the override blocks, rewritten as a drawing
\* when the block in front of it set a drawing level
P1_plain(text, from, to, plevel, RX, RY) ==
    IF plevel > 0 THEN scaleXYAlternating(SubSeq(text, from, to), RX, RY)
    ELSE SubSeq(text, from, to)

\* the event text put together again: ms its override blocks, ov what
\* processOverrideContent made of them
P1_eventJoin(text, ms, ov, RX, RY) ==
    Flatten([k \in 1..(Len(ms) + 1) |->
        P1_plain(text, IF k = 1 THEN 1 ELSE ms[k - 1].end,
                 IF k <= Len(ms) THEN ms[k].start - 1 ELSE Len(text),
                 IF k = 1 THEN 0 ELSE ov[k - 1].plevel, RX, RY)
        \o (IF k <= Len(ms) THEN "{" \o ov[k].content \o "}" ELSE "")])

P1_eventBlocks(text, ms, RX, RY) ==
    IF text = "" \/ Len(ms) = 0 THEN text
    ELSE P1_eventJoin(text, ms,
             [k \in 1..Len(ms) |->
                 processOverrideContent(SubSeq(text, ms[k].start + 1, ms[k].end - 2), RX, RY)],
             RX, RY)

processEventText(text, RX, RY) ==
    P1_eventBlocks(text, FindAll(V2_reOverrideBlock, text), RX, RY)

-----------------------------------------------------------------------------
(* src/unnamed/part_001: ProcessASS on the content of the file.  The state *)
(* st of the main pass holds section, inStyles, inEvents and the two lists *)
(* of Format names (sf, ef); a turn of the loop writes one line.           *)

P1_targetW == 1920

P1_targetH == 1080

\* the number of a PlayRes line l: after its first ":", or its first "="
\* when it has no ":"
P1_resParts(byColon, byEquals) ==
    IF Len(byColon) >= 2 THEN ParseFloat(TrimSpace(byColon[2]))
    ELSE IF Len(byEquals) >= 2 THEN ParseFloat(TrimSpace(byEquals[2]))
    ELSE NotParsed

P1_resValue(l) == P1_resParts(SplitN(l, ":", 2), SplitN(l, "=", 2))

\* sourceW (key "playresx") or sourceH (key "playresy") in thousandths:
\* the number of the last line of that key whose number parses, 0 without
P1_sourceAt(lines, c) ==
    IF c = {} THEN 0 ELSE P1_resValue(TrimSpace(lines[Max(c)])).m

P1_source(lines, key) ==
    P1_sourceAt(lines, {i \in 1..Len(lines) :
                           /\ HasPrefix(ToLower(TrimSpace(lines[i])), key)
                           /\ P1_resValue(TrimSpace(lines[i])).ok})

\* fidx[name] = k: k is the last index of the name among the Format names
P1_isIdx(fields, name, k) ==
    /\ k <= Len(fields)
    /\ ToLower(TrimSpace(fields[k])) = name
    /\ \A j \in (k + 1)..Len(fields) : ToLower(TrimSpace(fields[j])) # name

P1_hasName(fields, name) ==
    \E k \in 1..Len(fields) : ToLower(TrimSpace(fields[k])) = name

\* parts[k] of a Style line after the scaling rules
P1_styleField(fields, k, v, p, RX, RY) ==
    IF ~p.ok THEN v
    ELSE IF P1_isIdx(fields, "fontsize", k) THEN intRound(p.m, RY)
    ELSE IF P1_isIdx(fields, "size", k) /\ ~P1_hasName(fields, "fontsize")
         THEN intRound(p.m, RY)
    ELSE IF P1_isIdx(fields, "scalex", k)
         THEN trimFloat(p.m, IF RatDiv(RX, RY) # Ratio(1, 1) THEN RatDiv(RX, RY)
                             ELSE Ratio(1, 1))
    ELSE IF \E n \in {"scaley", "outline", "shadow"} : P1_isIdx(fields, n, k)
         THEN trimFloat(p.m, RY)
    ELSE IF \E n \in {"marginl", "marginr"} : P1_isIdx(fields, n, k)
         THEN intRound(p.m, RX)
    ELSE IF P1_isIdx(fields, "marginv", k) THEN intRound(p.m, RY)
    ELSE v

\* a Style line with the parts of its fields
P1_styleParts(line, fields, parts, RX, RY) ==
    IF Len(parts) # Len(fields) THEN line
    ELSE "Style: "
         \o Join([k \in 1..Len(parts) |->
                     P1_styleField(fields, k, parts[k], ParseFloat(parts[k]), RX, RY)], ",")

\* textPos, counted from 1
P1_textPos(fields, n) ==
    IF P1_hasName(fields, "text")
    THEN Max({k \in 1..Len(fields) : ToLower(TrimSpace(fields[k])) = "text"})
    ELSE n

\* parts[k] of a Dialogue line after the scaling of the margins
P1_eventField(fields, k, v, p, RX, RY) ==
    IF ~p.ok THEN v
    ELSE IF \E n \in {"marginl", "marginr"} : P1_isIdx(fields, n, k)
         THEN intRound(p.m, RX)
    ELSE IF P1_isIdx(fields, "marginv", k) THEN intRound(p.m, RY)
    ELSE v

\* a Dialogue line with the parts of its fields
P1_dialogueParts(line, fields, parts, textPos, RX, RY) ==
    IF Len(parts) # Len(fields) THEN line
    ELSE "Dialogue: "
         \o Join([k \in 1..Len(parts) |->
                     IF k = textPos
                     THEN processEventText(
                              P1_eventField(fields, k, parts[k], ParseFloat(parts[k]), RX, RY),
                              RX, RY)
                     ELSE P1_eventField(fields, k, parts[k], ParseFloat(parts[k]), RX, RY)],
                 ",")

\* line[idx+1:] for idx the index of the first ":"
P1_afterColon(line) == From(line, Index(line, ":") + 1)

P1_formatFields(line) == TrimEach(Split(P1_afterColon(line), ","))

\* the loop body on a section header: what it does to the state
P1_header(st, section) ==
    [st EXCEPT !.section = section,
               !.inStyles = section \in {"v4+ styles", "v4 styles", "styles"},
               !.inEvents = section = "events"]

\* the state after the loop body on a line
P1_next(st, line, trim) ==
    IF HasPrefix(trim, "[") /\ HasSuffix(trim, "]")
    THEN P1_header(st, ToLower(TrimRightSet(TrimLeftSet(trim, {"[", "]"}), {"[", "]"})))
    ELSE IF st.section = "script info" THEN st
    ELSE IF st.inStyles /\ HasPrefix(ToLower(trim), "format:")
         THEN [st EXCEPT !.sf = P1_formatFields(line)]
    ELSE IF ~st.inStyles /\ st.inEvents /\ HasPrefix(ToLower(trim), "format:")
         THEN [st EXCEPT !.ef = P1_formatFields(line)]
    ELSE st

\* the states of the loop at the lines from i on, st the state at line i
RECURSIVE P1_states(_, _, _)
P1_states(lines, i, st) ==
    IF i > Len(lines) THEN <<>>
    ELSE Only({<<st>> \o P1_states(lines, i + 1, t) :
               t \in {P1_next(st, lines[i], TrimSpace(lines[i]))}})

\* the line written in [Script Info]
P1_info(line, lower) ==
    IF HasPrefix(lower, "playresx") THEN "PlayResX: " \o Itoa(P1_targetW)
    ELSE IF HasPrefix(lower, "playresy") THEN "PlayResY: " \o Itoa(P1_targetH)
    ELSE line

\* the line written in a styles section
P1_inStyles(st, line, lower, RX, RY) ==
    IF ~HasPrefix(lower, "format:") /\ HasPrefix(lower, "style:") /\ Len(st.sf) # 0
    THEN P1_styleParts(line, st.sf,
                       splitByCommasN(TrimSpace(P1_afterColon(line)), Len(st.sf)), RX, RY)
    ELSE line

P1_dialogueSplit(st, line, parts, RX, RY) ==
    P1_dialogueParts(line, st.ef, parts, P1_textPos(st.ef, Len(parts)), RX, RY)

\* the line written in the events section
P1_inEvents(st, line, lower, RX, RY) ==
    IF ~HasPrefix(lower, "format:") /\ HasPrefix(lower, "dialogue:") /\ Len(st.ef) # 0
    THEN P1_dialogueSplit(st, line,
                          splitByCommasN(TrimSpace(P1_afterColon(line)), Len(st.ef)),
                          RX, RY)
    ELSE line

\* the line one turn of "for _, raw := range lines" writes in the state st
P1_lineOut(st, line, trim, RX, RY) ==
    IF HasPrefix(trim, "[") /\ HasSuffix(trim, "]") THEN line
    ELSE IF st.section = "script info" THEN P1_info(line, ToLower(trim))
    ELSE IF st.inStyles THEN P1_inStyles(st, line, ToLower(trim), RX, RY)
    ELSE IF st.inEvents THEN P1_inEvents(st, line, ToLower(trim), RX, RY)
    ELSE line

P1_start ==
    [section |-> "", inStyles |-> FALSE, inEvents |-> FALSE, sf |-> <<>>, ef |-> <<>>]

\* the main pass, sts the state of the loop at each line
P1_outLines(lines, sts, RX, RY) ==
    [i \in 1..Len(lines) |-> P1_lineOut(sts[i], lines[i], TrimSpace(lines[i]), RX, RY)]

\* ProcessASS after "find PlayResX / PlayResY"
P1_resample(lines, sourceW, sourceH) ==
    IF sourceW = 0 \/ sourceH = 0 THEN ""
    ELSE limenimizerASS(
             Join(P1_outLines(lines, P1_states(lines, 1, P1_start),
                              Ratio(P1_targetW * Milli, sourceW),
                              Ratio(P1_targetH * Milli, sourceH)), "\n"))

\* ProcessASS on the content of the file
P1_ProcessASS(assContent) ==
    IF assContent = "" THEN ""
    ELSE Only({P1_resample(lines, P1_source(lines, "playresx"), P1_source(lines, "playresy")) :
               lines \in {Split(ReplaceAllLit(assContent, "\r\n", "\n"), "\n")}})

-----------------------------------------------------------------------------
(* The first program of src/unnamed/part_002: processOverrides             *)

\* s cut after its last character that is not "0" (at pos), and before the
\* dot when only the dot is left
P2_cut(s, pos, dot) ==
    IF pos <= dot THEN SubSeq(s, 1, dot - 1) ELSE SubSeq(s, 1, pos)

P2_trimZeros(s) ==
    P2_cut(s, Max({j \in 1..Len(s) : At(s, j) # "0"} \cup {0}), Index(s, "."))

\* floatToString(val, 3) for val = (m / 1000) * (r.n / r.d): "%.3f", cut
\* after the last character that is not "0", and before the dot when only
\* the dot is left
P2_floatToString(m, r) == P2_trimZeros(FormatFixed(m, r, 3))

\* floatToString(v * r, 3) for the numeral text (0 when it does not parse)
P2_scaled(text, r) == P2_floatToString(ParseFloat(text).m, r)

\* p scaled when it parses, other when it does not
P2_scaledOr(p, other, r) ==
    IF ParseFloat(p).ok THEN P2_scaled(p, r) ELSE other

P2_reNumber == <<<<NumA>>>>

\* scalePathCoords: every numeral, alternately by sx and sy
P2_scalePathCoords(s, sx, sy) ==
    ReplaceIndexed(P2_reNumber, s,
        LAMBDA m, k : P2_scaled(m.sub[1], IF (k - 1) % 2 = 0 THEN sx ELSE sy))

P2_reT == <<<<ILit("\\t("), NotParens, Lit(")")>>>>

P2_rePos == <<<<ILit("\\pos("), WS, LazyRP, WS, Lit(")")>>>>

P2_reMove == <<<<ILit("\\move("), WS, LazyRP, WS, Lit(")")>>>>

P2_reOrg == <<<<ILit("\\org("), WS, LazyRP, WS, Lit(")")>>>>

P2_reBord == <<<<ILit("\\bord"), NumA>>>>

P2_reShad == <<<<ILit("\\shad"), NumA>>>>

P2_reXB == <<<<ILit("\\xbord"), NumA>>>>

P2_reYB == <<<<ILit("\\ybord"), NumA>>>>

P2_reXS == <<<<ILit("\\xshad"), NumA>>>>

P2_reYS == <<<<ILit("\\yshad"), NumA>>>>

P2_reFS == <<<<ILit("\\fs"), NumA>>>>

P2_rePbo == <<<<ILit("\\pbo"), NumA>>>>

P2_reClip ==
    <<<<ILit("\\iclip("), WS, LazyRP, WS, Lit(")")>>,
      <<ILit("\\clip("), WS, LazyRP, WS, Lit(")")>>>>

P2_xyParts(tag, whole, parts, rx, ry) ==
    IF Len(parts) >= 2
    THEN tag \o P2_scaled(TrimSpace(parts[1]), rx) \o ","
             \o P2_scaled(TrimSpace(parts[2]), ry) \o ")"
    ELSE whole

\* the replacement of a \pos(...) or \org(...) match: the first two
\* comma-separated parts, a part that does not parse counting as 0
P2_xyRewrite(tag, m, rx, ry) == P2_xyParts(tag, m.sub[1], Split(m.sub[2], ","), rx, ry)

\* the i-th comma-separated part of a \move or a clip rewritten: p the part
\* trimmed, other what is written when it is not scaled
P2_part(i, p, other, lim, rx, ry) ==
    IF i <= lim THEN P2_scaledOr(p, other, IF (i - 1) % 2 = 0 THEN rx ELSE ry)
    ELSE other

\* the comma-separated parts of a \move rewritten
P2_moveParts(parts, rx, ry) ==
    Join([i \in 1..Len(parts) |-> P2_part(i, parts[i], parts[i], Len(parts), rx, ry)], ",")

\* the replacement of a \move(...) match: every comma-separated part that
\* parses is scaled, by rx at even positions and by ry at odd ones
P2_moveRewrite(m, rx, ry) ==
    "\\move(" \o P2_moveParts(TrimEach(Split(m.sub[2], ",")), rx, ry) \o ")"

P2_ContainsAny(s, chars) == \E j \in 1..Len(s) : At(s, j) \in chars

\* the comma-separated parts of a rectangle clip rewritten
P2_clipParts(parts, rx, ry) ==
    Join([i \in 1..Len(parts) |->
             P2_part(i, TrimSpace(parts[i]), parts[i], 4, rx, ry)], ",")

\* the replacement of a \clip(...) or \iclip(...) match
P2_clipRewrite(m, rx, ry) ==
    SubSeq(m.sub[1], 1, Index(m.sub[1], "(") - 1) \o "("
    \o (IF P2_ContainsAny(m.sub[2], {"m", "l", "b", "n", "s", "M", "L", "B", "N", "S"})
        THEN P2_scalePathCoords(m.sub[2], rx, ry)
        ELSE P2_clipParts(Split(m.sub[2], ","), rx, ry))
    \o ")"

P2_bare(tag, m, r) == tag \o P2_scaled(m.sub[2], r)

\* processOverrides after its \t loop: the pattern of the k-th tag rewrite,
\* in the order of the code
P2_overridesRe(k) ==
    CASE k = 1 -> P2_rePos
      [] k = 2 -> P2_reMove
      [] k = 3 -> P2_reOrg
      [] k = 4 -> P2_reBord
      [] k = 5 -> P2_reShad
      [] k = 6 -> P2_reXB
      [] k = 7 -> P2_reYB
      [] k = 8 -> P2_reXS
      [] k = 9 -> P2_reYS
      [] k = 10 -> P2_reFS
      [] k = 11 -> P2_rePbo
      [] k = 12 -> P2_reClip

\* the text the k-th rewrite writes in front of its numbers
P2_overridesTag(k) ==
    CASE k = 1 -> "\\pos("
      [] k = 3 -> "\\org("
      [] k = 4 -> "\\bord"
      [] k = 5 -> "\\shad"
      [] k = 6 -> "\\xbord"
      [] k = 7 -> "\\ybord"
      [] k = 8 -> "\\xshad"
      [] k = 9 -> "\\yshad"
      [] k = 10 -> "\\fs"
      [] k = 11 -> "\\pbo"

\* the replacement the k-th rewrite makes of its match m
P2_overridesRep(k, m, rx, ry) ==
    CASE k \in {1, 3} -> P2_xyRewrite(P2_overridesTag(k), m, rx, ry)
      [] k = 2 -> P2_moveRewrite(m, rx, ry)
      [] k = 12 -> P2_clipRewrite(m, rx, ry)
      [] OTHER -> P2_bare(P2_overridesTag(k), m, IF k \in {6, 8} THEN rx ELSE ry)

P2_overridesStep(k, c, rx, ry) ==
    ReplaceAllStringFunc(P2_overridesRe(k), c, LAMBDA m : P2_overridesRep(k, m, rx, ry))

RECURSIVE P2_overridesSteps(_, _, _, _)
P2_overridesSteps(k, c, rx, ry) ==
    IF k > 12 THEN c
    ELSE Only({P2_overridesSteps(k + 1, t, rx, ry) : t \in {P2_overridesStep(k, c, rx, ry)}})

P2_overridesRewrites(content, rx, ry) == P2_overridesSteps(1, content, rx, ry)

\* one pass of the \t loop of processOverrides.  The recursive call gets
\* text without parentheses (the capture is [^()]*), in which reT cannot
\* match, so the callee's loop breaks at once and it returns its rewrites.
P2_overridesPass(content, rx, ry) ==
    ReplaceAllStringFunc(P2_reT, content,
        LAMBDA m : "\\t(" \o P2_overridesRewrites(m.sub[2], rx, ry) \o ")")

-----------------------------------------------------------------------------
(* The first program of src/unnamed/part_002: processASS on the content of *)
(* the file.  The state st of the line loop holds inStyles, inEvents and   *)
(* the two lists of Format names (sf, ef); a turn of the loop writes one   *)
(* line, or never ends in a call of processOverrides (loops).              *)

P2_targetW == 1920

P2_targetH == 1080

\* the byte order mark U+FEFF
P2_BOM == "﻿"

P2_normalize(s) == ReplaceAllLit(ReplaceAllLit(s, "\r\n", "\n"), "\r", "\n")

addBOMAndCRLF(s) ==
    Only({IF HasPrefix(t, P2_BOM) THEN t ELSE P2_BOM \o t :
          t \in {ReplaceAllLit(P2_normalize(s), "\n", "\r\n")}})

\* (?i)^\s*PlayRes(X|Y)\s*:\s*(\d+)\s*$ with its first group matching axis
P2_rePlayRes(axis) ==
    <<<<Bol, WS, ILit("playres" \o axis), WS, Lit(":"), WS, Digits1, WsEol>>>>

\* the number of the last of the lines c, 0 when there is none
P2_playResAt(lines, axis, c) ==
    IF c = {} THEN 0
    ELSE Atoi(FindStringSubmatch(P2_rePlayRes(axis), lines[Max(c)]).sub[2]).v

\* the first pass: playResX (axis "x") or playResY (axis "y")
P2_playRes(lines, axis) ==
    P2_playResAt(lines, axis,
                 {i \in 1..Len(lines) : MatchString(P2_rePlayRes(axis), lines[i]) = TRUE})

P2_noArg == [ok |-> FALSE, arg |-> ""]

\* \s*(.+)$ on v, w being v without its leading spaces: \s* takes the
\* spaces and gives the last back when nothing else is left for (.+)
P2_keyCapture(v, w) ==
    IF w # "" THEN [ok |-> TRUE, arg |-> w]
    ELSE IF v # "" THEN [ok |-> TRUE, arg |-> SubSeq(v, Len(v), Len(v))]
    ELSE P2_noArg

P2_keyColon(u) ==
    IF At(u, 1) = ":" THEN P2_keyCapture(From(u, 2), TrimLeftSpace(From(u, 2)))
    ELSE P2_noArg

\* FindStringSubmatch of (?i)^\s*<key>\s*:\s*(.+)$ on a line: whether it
\* matches, and its capture
P2_keyLine(line, key) ==
    Only({IF HasPrefix(ToLower(t), key)
          THEN P2_keyColon(TrimLeftSpace(From(t, Len(key) + 1)))
          ELSE P2_noArg :
          t \in {TrimLeftSpace(line)}})

\* fieldMap[lower(names[i])]: the raw field at the last index that has the
\* name of index i ("" beyond the raw fields)
P2_mapped(names, raw, i) ==
    Only({IF j <= Len(raw) THEN raw[j] ELSE "" :
          j \in {Max({k \in 1..Len(names) : ToLower(names[k]) = ToLower(names[i])})}})

\* strings.TrimSpace(v) != "" and ParseFloat without error
P2_parses(v) == TrimSpace(v) # "" /\ ParseFloat(TrimSpace(v)).ok

\* strconv.Itoa(int(f*r + 0.5))
P2_int(v, r) == Itoa(TruncHalf(ParseFloat(TrimSpace(v)).m, r))

\* the value of fieldMap[lname] after the transformations of a Style line
P2_styleField(lname, v, rx, ry) ==
    IF ~P2_parses(v) THEN v
    ELSE IF lname = "fontsize" THEN P2_int(v, ry)
    ELSE IF lname \in {"outline", "outline_w", "shadow", "shadow_w"}
         THEN P2_scaled(TrimSpace(v), ry)
    ELSE IF lname \in {"marginl", "marginr"} THEN P2_int(v, rx)
    ELSE IF lname = "marginv" THEN P2_int(v, ry)
    ELSE IF lname = "scalex" THEN P2_scaled(TrimSpace(v), RatDiv(rx, ry))
    ELSE v

\* a Style line rebuilt in the order of the Format names
P2_styleLine(names, raw, rx, ry) ==
    "Style: "
    \o Join([i \in 1..Len(names) |->
                P2_styleField(ToLower(names[i]), P2_mapped(names, raw, i), rx, ry)], ",")

\* the value of fieldMap[lname] after the transformations of a Dialogue line
P2_eventField(lname, v, rx, ry) ==
    IF ~P2_parses(v) THEN v
    ELSE IF lname \in {"marginl", "marginr"} THEN P2_int(v, rx)
    ELSE IF lname = "marginv" THEN P2_int(v, ry)
    ELSE v

\* textIdx, counted from 1: the first Format name that is "text", else the
\* last raw field
P2_textIdx(names, raw) ==
    IF \E i \in 1..Len(names) : ToLower(TrimSpace(names[i])) = "text"
    THEN Min({i \in 1..Len(names) : ToLower(TrimSpace(names[i])) = "text"})
    ELSE Len(raw)

P2_reOverrideBlock == <<<<Lit("{"), NotBrace, Lit("}")>>>>

P2_rePmode == <<<<ILit("\\p"), Digits1>>>>

\* processed, with its numerals scaled as a path when it holds a \pN, N # 0
P2_pmode(processed, rp, rx, ry) ==
    IF rp.ok /\ rp.sub[2] # "0" THEN P2_scalePathCoords(processed, rx, ry)
    ELSE processed

\* the replacement of an override block with the content inner, when the
\* call of processOverrides returns
P2_block(inner, rx, ry) ==
    Only({"{" \o P2_pmode(p, FindStringSubmatch(P2_rePmode, p), rx, ry) \o "}" :
          p \in {P2_overridesRewrites(inner, rx, ry)}})

P2_newText(text, rx, ry) ==
    ReplaceAllStringFunc(P2_reOverrideBlock, text,
        LAMBDA m : P2_block(SubSeq(m.sub[1], 2, Len(m.sub[1]) - 1), rx, ry))

\* whether processOverrides is called on a content its \t loop never
\* leaves: every pass writes the \t( it matched back
P2_textLoops(ms) == \E k \in 1..Len(ms) : MatchString(P2_reT, ms[k].sub[1])

\* rawFields after "place newText back"
P2_placed(raw, idx, newText) ==
    IF idx <= Len(raw) THEN [raw EXCEPT ![idx] = newText] ELSE Append(raw, newText)

\* outFields[i]: the value of the map when it is not empty, else the raw
\* field
P2_outField(val, placed, i) ==
    IF val # "" THEN val ELSE IF i <= Len(placed) THEN placed[i] ELSE ""

\* the Dialogue line rebuilt
P2_dialogueOut(names, raw, placed, rx, ry) ==
    IF Len(names) > 0
    THEN "Dialogue: "
         \o Join([i \in 1..Len(names) |->
                     P2_outField(P2_eventField(ToLower(names[i]), P2_mapped(names, raw, i),
                                               rx, ry),
                                 placed, i)], ",")
    ELSE "Dialogue: " \o Join(placed, ",")

\* the rewrite of a Dialogue line with the raw fields raw, text its text
\* field
P2_dialogueText(names, raw, idx, text, rx, ry) ==
    [text  |-> P2_dialogueOut(names, raw, P2_placed(raw, idx, P2_newText(text, rx, ry)),
                              rx, ry),
     loops |-> P2_textLoops(FindAll(P2_reOverrideBlock, text))]

P2_dialogueLine(names, raw, idx, rx, ry) ==
    P2_dialogueText(names, raw, idx, IF idx <= Len(raw) THEN raw[idx] ELSE "", rx, ry)

\* the loop body on a section header: what it does to the state
P2_header(st, section) ==
    [st EXCEPT !.inStyles = section \in {"[v4+ styles]", "[v4+styles]"},
               !.inEvents = section = "[events]"]

\* the state after the loop body on a line; fm is the match of the Format:
\* pattern
P2_next(st, trim, fm) ==
    IF HasPrefix(trim, "[") /\ HasSuffix(trim, "]") THEN P2_header(st, ToLower(trim))
    ELSE IF st.inStyles /\ fm.ok THEN [st EXCEPT !.sf = TrimEach(Split(fm.arg, ","))]
    ELSE IF st.inEvents /\ fm.ok THEN [st EXCEPT !.ef = TrimEach(Split(fm.arg, ","))]
    ELSE st

\* the states of the loop at the lines from i on, st the state at line i
RECURSIVE P2_states(_, _, _)
P2_states(lines, i, st) ==
    IF i > Len(lines) THEN <<>>
    ELSE Only({<<st>> \o P2_states(lines, i + 1, t) :
               t \in {P2_next(st, TrimSpace(lines[i]), P2_keyLine(lines[i], "format"))}})

P2_copy(line) == [text |-> line, loops |-> FALSE]

\* the line written inside the styles section; fm and sm are the matches
\* of the Format: and Style: patterns
P2_inStyles(st, line, fm, sm, rx, ry) ==
    IF ~fm.ok /\ sm.ok THEN P2_copy(P2_styleLine(st.sf, Split(sm.arg, ","), rx, ry))
    ELSE P2_copy(line)

P2_dialogueOf(st, raw, rx, ry) ==
    P2_dialogueLine(st.ef, raw, P2_textIdx(st.ef, raw), rx, ry)

\* the line written inside the events section
P2_inEvents(st, line, fm, dm, rx, ry) ==
    IF ~fm.ok /\ dm.ok THEN P2_dialogueOf(st, Split(dm.arg, ","), rx, ry)
    ELSE P2_copy(line)

\* the line written outside the two sections
P2_outside(line) ==
    P2_copy(IF MatchString(P2_rePlayRes("x"), line) THEN "PlayResX: " \o Itoa(P2_targetW)
            ELSE IF MatchString(P2_rePlayRes("y"), line)
                 THEN "PlayResY: " \o Itoa(P2_targetH)
            ELSE line)

\* the line one turn of "for _, rawLine := range lines" writes in the state
\* st, and whether the turn never ends
P2_lineOut(st, line, trim, rx, ry) ==
    IF HasPrefix(trim, "[") /\ HasSuffix(trim, "]") THEN P2_copy(line)
    ELSE IF st.inStyles
         THEN P2_inStyles(st, line, P2_keyLine(line, "format"), P2_keyLine(line, "style"),
                          rx, ry)
    ELSE IF st.inEvents
         THEN P2_inEvents(st, line, P2_keyLine(line, "format"), P2_keyLine(line, "dialogue"),
                          rx, ry)
    ELSE P2_outside(line)

P2_start == [inStyles |-> FALSE, inEvents |-> FALSE, sf |-> <<>>, ef |-> <<>>]

\* "join with CRLF and add BOM"
P2_joined(outs) ==
    [text  |-> addBOMAndCRLF(Join([i \in 1..Len(outs) |-> outs[i].text], "\r\n")),
     loops |-> \E i \in 1..Len(outs) : outs[i].loops]

\* the loop over the lines, sts the state of the loop at each line
P2_outLines(lines, sts, rx, ry) ==
    P2_joined([i \in 1..Len(lines) |->
                  P2_lineOut(sts[i], lines[i], TrimSpace(lines[i]), rx, ry)])

\* processASS after the first pass
P2_resample(raw, lines, playResX, playResY) ==
    IF playResX = 0 \/ playResY = 0
    THEN [text |-> addBOMAndCRLF(raw), loops |-> FALSE]
    ELSE P2_outLines(lines, P2_states(lines, 1, P2_start),
                     Ratio(P2_targetW, playResX), Ratio(P2_targetH, playResY))

\* processASS on the content raw of the file: the text it returns, and
\* whether it reaches a call of processOverrides that never returns
P2_processASS(raw) ==
    Only({P2_resample(raw, lines, P2_playRes(lines, "x"), P2_playRes(lines, "y")) :
          lines \in {Split(P2_normalize(raw), "\n")}})
-----------------------------------------------------------------------------
(* The runs of the model: one call of one function on one input.  An       *)
(* action binds what the function returns once and reads it from there.    *)

\* the passes of a \t loop that the model counts; further passes are taken
\* only while they leave the content as it is
MaxPasses == 2

\* the source resolutions: the ratios to 1920x1080 are (1, 1), (3/2, 3/2),
\* (2, 2), (4, 1) and (3, 3/4)
Resolutions ==
    {<<1920, 1080>>, <<1280, 720>>, <<960, 540>>, <<480, 1080>>, <<640, 1440>>}

\* ratioX and ratioY of a call that is given them as arguments
RX == Ratio(targetPlayResX, srcW)

RY == Ratio(targetPlayResY, srcH)

XY == {"0", "10", "100", "200", "7.5", "-3"}

PosBlocks ==
    {"\\pos(" \o x \o "," \o y \o ")" : x \in XY, y \in XY}
    \cup {"\\an8\\org(" \o x \o "," \o y \o ")\\pos( " \o y \o " , " \o x \o " )\\fs20" :
            x \in XY, y \in {"10", "200"}}

Rects ==
    {<<"1", "2", "11", "12">>, <<"10", "20", "30", "40">>, <<"0", "0", "100", "200">>,
     <<"5", "5", "5", "5">>, <<"7.5", "2", "100", "50">>}

ClipBlocks ==
    {"\\" \o c \o "(" \o r[1] \o "," \o r[2] \o "," \o r[3] \o "," \o r[4] \o ")" :
        c \in {"clip", "iclip"}, r \in Rects}
    \cup {"\\clip(m 0 0 l 100 0 100 100 l 0 100)", "\\iclip(1,m 0 0 l 100 0)",
          "\\clip(10,20)", "\\clip(m 10 l 20 30)"}

MoveBlocks ==
    {"\\move(1,2,3,4,0,500)", "\\move(10,20,30,40)", "\\move(100,200,100,50,100,900)",
     "\\an8\\move(10,20,30,40,0,500)\\fs20"}

TBlocks ==
    {"\\t(\\fs20)", "\\t(0,500,\\fs20\\pos(10,10))", "\\t(\\b1)", "\\t(100)", "\\t(\\fs20",
     "\\t(0,500,\\fs10)\\t(\\fsp2)", "\\bord2\\t(\\bord4)", "\\pos(10,10)\\t(\\1c&HFF&)"}

OtherBlocks ==
    {"\\fs20\\fsp2\\bord2\\shad1\\be1\\blur2\\fscx100",
     "\\margins(1,2,3,4)\\marginl5\\marginv5\\fax1\\fay2",
     "\\xbord2\\ybord2\\xshad1\\yshad1\\pbo2\\fnArial", "\\b1", ""}

TagBlocks == PosBlocks \cup ClipBlocks \cup MoveBlocks \cup TBlocks \cup OtherBlocks

P2Blocks == ClipBlocks \cup MoveBlocks \cup TBlocks \cup OtherBlocks
            \cup {"\\pos(100,200)", "\\org(10,7.5)\\pos(10)"}

Paths == {"m 0 0 l 100 0", "m 0 0 l 100 0 100 100 l 0 100", "m 10 20 b 1 2 3 4 5 6"}

EventTexts ==
    {"{\\" \o c \o "(" \o s \o "," \o p \o ")}x" :
        c \in {"clip", "iclip"}, s \in {"1", "2", "4"}, p \in Paths}
    \cup {"{\\clip(" \o p \o ")}x" : p \in Paths}
    \cup {"{\\pos(100,200)\\fs45}Hi", "{\\p1}m 0 0 l 10 10{\\p0}m 1 1", "Hi", "",
          "{\\p1}m 5 5 l 10 5", "m 1 1{\\p1}m 10 20 l 30 40{\\p0}m 2 2",
          "{\\clip(1,2,11,12)\\move(1,2,3,4, 0 , 500)\\bord2}x {\\iclip(10,20)}"}

StdFormat ==
    "Format: Name, Fontname, Fontsize, PrimaryColour, SecondaryColour, OutlineColour, BackColour, Bold, Italic, Underline, StrikeOut, ScaleX, ScaleY, Spacing, Angle, BorderStyle, Outline, Shadow, Alignment, MarginL, MarginR, MarginV, Encoding"

SizeFirstFormat ==
    "Format: Name, Fontsize, Fontname, PrimaryColour, SecondaryColour, OutlineColour, BackColour, Bold, Italic, Underline, StrikeOut, ScaleX, ScaleY, Spacing, Angle, BorderStyle, Outline, Shadow, Alignment, MarginL, MarginR, MarginV, Encoding"

StyleRest == ",&H00FFFFFF,&H000000FF,&H00000000,&H00000000,0,0,0,0,100,100,0,0,1,2,2,2,10,10,10,1"

\* a script: its PlayRes lines, a styles section with one Format and one
\* Style line, an events section with one Dialogue line
Doc(w, h, sizeFirst, fs, margins, text) ==
    "[Script Info]\nPlayResX: " \o Itoa(w) \o "\nPlayResY: " \o Itoa(h)
    \o "\n\n[V4+ Styles]\n" \o (IF sizeFirst THEN SizeFirstFormat ELSE StdFormat)
    \o "\nStyle: Default," \o (IF sizeFirst THEN fs \o ",Arial" ELSE "Arial," \o fs)
    \o StyleRest
    \o "\n\n[Events]\nFormat: Layer, Start, End, Style, Name, MarginL, MarginR, MarginV, Effect, Text"
    \o "\nDialogue: 0,0:00:01.00,0:00:02.00,Default,," \o margins \o ",," \o text \o "\n"

DocTexts ==
    {"{\\move(1,2,3,4,0,500)}Hi", "{\\clip(m 0 0 l 100 0 100 100 l 0 100)}Hi",
     "{\\t(\\fs20)}Hi", "Hi, there", "{\\fnArial\\clip(1,2,11,12)}Hi"}

\* the scripts of the model: one base script and its variants in one place
DocParams ==
    {<<FALSE, "45", "10,20,5", "{\\pos(100,200)}Hi">>}
    \cup {<<FALSE, fs, "10,20,5", "{\\pos(100,200)}Hi">> : fs \in {"48", "20", "x"}}
    \cup {<<FALSE, "45", "0,0,0", "{\\pos(100,200)}Hi">>}
    \cup {<<FALSE, "45", "10,20,5", tx>> : tx \in DocTexts}
    \cup {<<TRUE, "45", "10,20,5", "{\\pos(100,200)}Hi">>}

Docs(w, h) == {Doc(w, h, d[1], d[2], d[3], d[4]) : d \in DocParams}

EventsFormat ==
    "Format: Layer, Start, End, Style, Name, MarginL, MarginR, MarginV, Effect, Text"

PlayResLines(w, h) ==
    "PlayResX: " \o Itoa(w) \o "\nPlayResY: " \o Itoa(h) \o "\n"

DefaultStyle == "Style: Default,Arial,45" \o StyleRest \o "\n"

PlainDialogue == "Dialogue: 0,0:00:01.00,0:00:02.00,Default,,10,20,5,,Hi\n"

\* a script given by the lines of its three sections
Script(info, styles, events) ==
    "[Script Info]\n" \o info \o "\n[V4+ Styles]\n" \o StdFormat \o "\n" \o styles
    \o "\n[Events]\n" \o EventsFormat \o "\n" \o events

\* a script whose styles section already holds the reference style
ResDoc(w, h) ==
    Script(PlayResLines(w, h), DefaultStyle \o resStyleLine \o "\n", PlainDialogue)

\* a script whose Dialogue line has nine fields, the Effect column missing
NineFieldDialogue == "Dialogue: 0,0:00:01.00,0:00:02.00,Default,,10,20,5,Hi"

ShortStyle == "Style: Short,Arial,20"

\* a script with a Style line of three fields before a Style line of all
ShortStyleDoc(w, h) ==
    Script(PlayResLines(w, h), ShortStyle \o "\n" \o DefaultStyle, PlainDialogue)

\* a script with numerals of three fractional digits
FineDoc(w, h) ==
    Script(PlayResLines(w, h), "Style: Default,Arial,45.126" \o StyleRest \o "\n",
           "Dialogue: 0,0:00:01.00,0:00:02.00,Default,,10,20,5,,{\\fs10.554\\pos(1.234,5)}Hi\n")

\* a script that stops at its styles section, and one whose last line has
\* no line terminator
NoEventsDoc(w, h) ==
    "[Script Info]\n" \o PlayResLines(w, h) \o "\n[V4+ Styles]\n" \o StdFormat \o "\n"
    \o DefaultStyle

\* a script whose events section has no Format line
BareEventsDoc(w, h) ==
    "[Script Info]\n" \o PlayResLines(w, h) \o "\n[V4+ Styles]\n" \o StdFormat \o "\n"
    \o DefaultStyle
    \o "\n[Events]\nDialogue: 0,0:00:01.00,0:00:02.00,Default,,10,20,5,,{\\fs20\\bord2}Hi\n"

\* a script without a [Script Info] section, and so without PlayRes lines
HeadlessDoc ==
    "[V4+ Styles]\n" \o StdFormat \o "\n" \o DefaultStyle \o "\n[Events]\n" \o EventsFormat
    \o "\n" \o PlainDialogue

\* scripts that declare no resolution, or one axis of it only (they and the
\* empty file are run at one resolution of the model, which they do not read)
NoPlayResDocs ==
    {Script("Title: x\n", DefaultStyle, PlainDialogue),
     Script("Title: x\nPlayResX: 1280\n", DefaultStyle, PlainDialogue),
     HeadlessDoc, "[Script Info]\nTitle: x\n"}

\* the scripts without a resolution, at the one resolution they are run at
BareDocs(w, h) ==
    IF w = defaultPlayResX /\ h = defaultPlayResY THEN NoPlayResDocs ELSE {}

\* what ProcessASS of part_001 and processASS of part_002 are run on
\* besides the scripts of the other programs
ExtraDocs(w, h) ==
    {BareEventsDoc(w, h)}
    \cup BareDocs(w, h)
    \cup (IF w = defaultPlayResX /\ h = defaultPlayResY THEN {""} ELSE {})

\* a script with a [Fonts] section between its styles and its events
FontsDoc(w, h) ==
    "[Script Info]\n" \o PlayResLines(w, h) \o "\n[V4+ Styles]\n" \o StdFormat \o "\n"
    \o DefaultStyle \o "\n[Fonts]\nfontname: a.ttf\n\n[Events]\n" \o EventsFormat \o "\n"
    \o PlainDialogue

\* a script whose events have a Format of names columns and one Dialogue
\* line of fields
EventsDoc(w, h, names, fields) ==
    "[Script Info]\n" \o PlayResLines(w, h) \o "\n[V4+ Styles]\n" \o StdFormat \o "\n"
    \o DefaultStyle \o "\n[Events]\nFormat: " \o names \o "\nDialogue: " \o fields \o "\n"

\* scripts whose events Format has nine columns (no Effect) and eleven (a
\* Marked column in front)
ColumnDocs(w, h) ==
    {EventsDoc(w, h, "Layer, Start, End, Style, Name, MarginL, MarginR, MarginV, Text",
               "0,0:00:01.00,0:00:02.00,Default,,10,20,5,{\\fs20\\bord2}Hi"),
     EventsDoc(w, h,
               "Marked, Layer, Start, End, Style, Name, MarginL, MarginR, MarginV, Effect, Text",
               "Marked=0,0,0:00:01.00,0:00:02.00,Default,,10,20,5,,{\\fs20\\bord2}Hi")}

\* what processASS of the application is run on besides the scripts of
\* the other programs
AppDocs(w, h) ==
    ColumnDocs(w, h)
    \cup {Script(PlayResLines(w, h) \o "Title: x\n", DefaultStyle, PlainDialogue)}
    \cup {Doc(w, h, FALSE, "45", "10,20,5", tx) :
             tx \in {"{\\fnArial\\fs20}a{\\bord2}b{\\i1}", "{\\fnArial{x}Hi"}}

\* scripts with a bare tag whose argument is no number; processASS of
\* resampleASSv2.go is run on them besides the scripts above
V2Docs(w, h) ==
    {Doc(w, h, FALSE, "45", "10,20,5", tx) : tx \in {"{\\fs1.2.3}Hi", "{\\bord-\\fs20}Hi"}}

\* a script with the percent tags; ProcessASS of part_001 is run on it
\* besides the scripts above
P1Docs(w, h) == {Doc(w, h, FALSE, "45", "10,20,5", "{\\fscx100\\fscy100}Hi")}

MoreDocs(w, h) ==
    {ResDoc(w, h), ShortStyleDoc(w, h), FineDoc(w, h), NoEventsDoc(w, h), FontsDoc(w, h),
     Script(PlayResLines(w, h), DefaultStyle, NineFieldDialogue \o "\n"),
     Script(PlayResLines(w, h), DefaultStyle, NineFieldDialogue)}

-----------------------------------------------------------------------------
(* main of the application.  disk is the file system, a set of pairs       *)
(* <<name, content>>; output is main's variable of that name; shown is the *)
(* titles and first lines of the dialogs of safeDialogMessage, in order.   *)

\* os.ReadFile
ReadFile(path, files) ==
    IF \E f \in files : f[1] = path
    THEN [err |-> FALSE, data |-> (CHOOSE f \in files : f[1] = path)[2]]
    ELSE [err |-> TRUE, data |-> ""]

\* processASS as main calls it, on a path: the error of ReadFile is
\* returned with an empty text
processASSPath(path, files) ==
    Only({IF f.err THEN [text |-> "", loops |-> FALSE, err |-> TRUE]
          ELSE Only({[text |-> p.text, loops |-> p.loops, err |-> FALSE] :
                     p \in {processASS(f.data)}}) :
          f \in {ReadFile(path, files)}})

\* filepath.Ext of a path without directories
RECURSIVE ExtFrom(_, _)
ExtFrom(path, i) ==
    IF i = 0 THEN ""
    ELSE IF At(path, i) = "." THEN From(path, i)
    ELSE ExtFrom(path, i - 1)

Ext(path) == ExtFrom(path, Len(path))

\* strings.TrimSuffix
TrimSuffix(s, suffix) ==
    IF HasSuffix(s, suffix) THEN SubSeq(s, 1, Len(s) - Len(suffix)) ELSE s

\* the loop of generateOutputName from the candidate out on
RECURSIVE outputNameFrom(_, _, _, _)
outputNameFrom(base, out, count, names) ==
    IF out \notin names THEN out
    ELSE outputNameFrom(base, base \o "_Limenime(" \o Itoa(count) \o ").ass",
                        count + 1, names)

generateOutputName(input, names) ==
    Only({outputNameFrom(base, base \o "_Limenime.ass", 1, names) :
          base \in {TrimSuffix(input, Ext(input))}})

\* main, the .ass case to its WriteFile, on an error that leaves out the
\* return: a variant that C19 has to reject
mainAfterASS_noReturn(err) == "name"

\* main, the .ass case after the call of processASS: return on an error,
\* go on to generateOutputName otherwise
mainAfterASS(err) == IF err THEN "done" ELSE "name"

assErrorDialog == "Limesub v3 - Error: Gagal memproses file ASS"

writeErrorDialog == "Limesub v3 - Error: Terjadi kesalahan saat menulis output"

unsupportedDialog == "Limesub v3 - Format Tidak Didukung"

\* the scripts main is run on, and what else is on the disk
MainDocs(w, h) ==
    {Doc(w, h, FALSE, "45", "10,20,5", tx) : tx \in {"{\\pos(100,200)}Hi", "{\\t(\\fs20)}Hi"}}

MainInputs == {"in.ass", "in.ASS", "in.txt"}

OldOutputs ==
    {{}, {<<"in_Limenime.ass", "old">>},
     {<<"in_Limenime.ass", "old">>, <<"in_Limenime(1).ass", "older">>}}

Init ==
    /\ pc = "call"
    /\ passes = 0
    /\ tick = FALSE
    /\ output = ""
    /\ shown = <<>>
    /\ \E r \in Resolutions :
          /\ srcW = r[1]
          /\ srcH = r[2]
          /\ \/ fn = "scaleTags" /\ arg \in TagBlocks /\ disk = {}
             \/ fn = "processOverrides" /\ arg \in P2Blocks /\ disk = {}
             \/ fn = "processEventText" /\ arg \in EventTexts /\ disk = {}
             \/ fn \in {"processASS", "V2_processASS", "limenimizerASS"}
                /\ arg \in Docs(r[1], r[2]) \cup MoreDocs(r[1], r[2]) \cup BareDocs(r[1], r[2])
                /\ disk = {}
             \/ fn = "processASS" /\ arg \in AppDocs(r[1], r[2]) /\ disk = {}
             \/ fn = "V2_processASS" /\ arg \in V2Docs(r[1], r[2]) /\ disk = {}
             \/ fn = "P1_ProcessASS" /\ arg \in P1Docs(r[1], r[2]) /\ disk = {}
             \/ fn \in {"P1_ProcessASS", "P2_processASS"}
                /\ arg \in Docs(r[1], r[2]) \cup MoreDocs(r[1], r[2])
                           \cup ExtraDocs(r[1], r[2])
                /\ disk = {}
             \/ fn = "main"
                /\ arg \in MainInputs
                /\ \E d \in MainDocs(r[1], r[2]), old \in OldOutputs :
                      disk \in {old, old \cup {<<arg, d>>}}
    /\ cur = IF fn = "main" THEN "" ELSE arg

\* scaleTags, from its entry to the head of its \t loop: every tag rewrite
Enter ==
    /\ fn = "scaleTags" /\ pc = "call"
    /\ \E t \in {scaleTagsRewrites(arg, RX, RY)} : cur' = t
    /\ pc' = "loop"
    /\ UNCHANGED <<disk, output, shown, fn, arg, srcW, srcH, passes, tick>>

\* scaleTags, one pass of "for reT.MatchString(s)"
LoopPass ==
    /\ fn = "scaleTags" /\ pc = "loop"
    /\ MatchString(reT, cur) = TRUE
    /\ \E t \in {scaleTagsPass(cur, RX, RY)} :
          /\ passes < MaxPasses \/ t = cur
          /\ cur' = t
    /\ passes' = IF passes < MaxPasses THEN passes + 1 ELSE passes
    /\ tick' = ~tick
    /\ UNCHANGED <<disk, output, shown, fn, arg, srcW, srcH, pc>>

\* scaleTags, the loop condition false: return s
Return ==
    /\ fn = "scaleTags" /\ pc = "loop"
    /\ MatchString(reT, cur) = FALSE
    /\ pc' = "done"
    /\ UNCHANGED <<disk, output, shown, fn, arg, srcW, srcH, cur, passes, tick>>

\* processOverrides, one pass of its "for { if !reT.MatchString ... }"
P2_LoopPass ==
    /\ fn = "processOverrides" /\ pc \in {"call", "loop"}
    /\ MatchString(P2_reT, cur) = TRUE
    /\ \E t \in {P2_overridesPass(cur, RX, RY)} :
          /\ passes < MaxPasses \/ t = cur
          /\ cur' = t
    /\ passes' = IF passes < MaxPasses THEN passes + 1 ELSE passes
    /\ tick' = ~tick
    /\ pc' = "loop"
    /\ UNCHANGED <<disk, output, shown, fn, arg, srcW, srcH>>

\* processOverrides, the break out of the loop and the rest of the function
P2_Rest ==
    /\ fn = "processOverrides" /\ pc \in {"call", "loop"}
    /\ MatchString(P2_reT, cur) = FALSE
    /\ \E t \in {P2_overridesRewrites(cur, RX, RY)} : cur' = t
    /\ pc' = "done"
    /\ UNCHANGED <<disk, output, shown, fn, arg, srcW, srcH, passes, tick>>

\* processEventText of part_001
EventText ==
    /\ fn = "processEventText" /\ pc = "call"
    /\ \E t \in {processEventText(arg, RX, RY)} : cur' = t
    /\ pc' = "done"
    /\ UNCHANGED <<disk, output, shown, fn, arg, srcW, srcH, passes, tick>>

\* processASS of the application, every call of scaleTags returning
ProcessASS ==
    /\ fn = "processASS" /\ pc = "call"
    /\ \E r \in {processASS(arg)} :
          /\ ~r.loops
          /\ cur' = r.text
    /\ pc' = "done"
    /\ UNCHANGED <<disk, output, shown, fn, arg, srcW, srcH, passes, tick>>

\* processASS of the application, stuck in a call of scaleTags
ProcessASSHang ==
    /\ fn = "processASS" /\ pc = "call"
    /\ \E r \in {processASS(arg)} : r.loops
    /\ pc' = "hang"
    /\ UNCHANGED <<disk, output, shown, fn, arg, srcW, srcH, cur, passes, tick>>

\* processASS of the application run again, on the text its first run
\* returned
ProcessASSAgain ==
    /\ fn = "processASS" /\ pc = "done"
    /\ \E r \in {processASS(cur)} :
          /\ ~r.loops
          /\ cur' = r.text
    /\ pc' = "again"
    /\ UNCHANGED <<disk, output, shown, fn, arg, srcW, srcH, passes, tick>>

\* processASS of resampleASSv2.go
V2_ProcessASS ==
    /\ fn = "V2_processASS" /\ pc = "call"
    /\ arg # ""
    /\ \E t \in {V2_processASS(arg)} : cur' = t
    /\ pc' = "done"
    /\ UNCHANGED <<disk, output, shown, fn, arg, srcW, srcH, passes, tick>>

\* limenimizerASS of resampleASSv2.go
Limenimizer ==
    /\ fn = "limenimizerASS" /\ pc = "call"
    /\ \E t \in {limenimizerASS(arg)} : cur' = t
    /\ pc' = "done"
    /\ UNCHANGED <<disk, output, shown, fn, arg, srcW, srcH, passes, tick>>

\* ProcessASS of part_001
P1_Resample ==
    /\ fn = "P1_ProcessASS" /\ pc = "call"
    /\ \E t \in {P1_ProcessASS(arg)} : cur' = t
    /\ pc' = "done"
    /\ UNCHANGED <<disk, output, shown, fn, arg, srcW, srcH, passes, tick>>

\* processASS of part_002, every call of processOverrides returning
P2_ProcessASS ==
    /\ fn = "P2_processASS" /\ pc = "call"
    /\ \E r \in {P2_processASS(arg)} :
          /\ ~r.loops
          /\ cur' = r.text
    /\ pc' = "done"
    /\ UNCHANGED <<disk, output, shown, fn, arg, srcW, srcH, passes, tick>>

\* processASS of part_002, stuck in a call of processOverrides
P2_ProcessASSHang ==
    /\ fn = "P2_processASS" /\ pc = "call"
    /\ \E r \in {P2_processASS(arg)} : r.loops
    /\ pc' = "hang"
    /\ UNCHANGED <<disk, output, shown, fn, arg, srcW, srcH, cur, passes, tick>>

\* main, an extension other than .ass: of the cases of the switch the
\* model has the .ass case and the default
MainUnsupported ==
    /\ fn = "main" /\ pc = "call"
    /\ ToLower(Ext(arg)) # ".ass"
    /\ shown' = Append(shown, unsupportedDialog)
    /\ pc' = "done"
    /\ UNCHANGED <<disk, output, fn, arg, srcW, srcH, cur, passes, tick>>

\* main, the .ass case: the call of processASS and the test of its error
MainASS ==
    /\ fn = "main" /\ pc = "call"
    /\ ToLower(Ext(arg)) = ".ass"
    /\ \E r \in {processASSPath(arg, disk)} :
          /\ ~r.loops
          /\ cur' = r.text
          /\ pc' = mainAfterASS(r.err)
          /\ shown' = IF r.err THEN Append(shown, assErrorDialog) ELSE shown
    /\ UNCHANGED <<disk, output, fn, arg, srcW, srcH, passes, tick>>

\* main, the .ass case, stuck in processASS
MainHang ==
    /\ fn = "main" /\ pc = "call"
    /\ ToLower(Ext(arg)) = ".ass"
    /\ \E r \in {processASSPath(arg, disk)} : r.loops
    /\ pc' = "hang"
    /\ UNCHANGED <<disk, output, shown, fn, arg, srcW, srcH, cur, passes, tick>>

\* main, output = generateOutputName(input)
MainName ==
    /\ fn = "main" /\ pc = "name"
    /\ \E n \in {generateOutputName(arg, {f[1] : f \in disk})} : output' = n
    /\ pc' = "write"
    /\ UNCHANGED <<disk, shown, fn, arg, srcW, srcH, cur, passes, tick>>

\* main, os.WriteFile(output, srtData) succeeds
MainWrite ==
    /\ fn = "main" /\ pc = "write"
    /\ disk' = {f \in disk : f[1] # output} \cup {<<output, cur>>}
    /\ pc' = "done"
    /\ UNCHANGED <<output, shown, fn, arg, srcW, srcH, cur, passes, tick>>

\* main, os.WriteFile fails and the error is reported
MainWriteFails ==
    /\ fn = "main" /\ pc = "write"
    /\ shown' = Append(shown, writeErrorDialog)
    /\ pc' = "done"
    /\ UNCHANGED <<disk, output, fn, arg, srcW, srcH, cur, passes, tick>>

Next ==
    \/ Enter
    \/ LoopPass
    \/ Return
    \/ P2_LoopPass
    \/ P2_Rest
    \/ EventText
    \/ ProcessASS
    \/ ProcessASSHang
    \/ ProcessASSAgain
    \/ V2_ProcessASS
    \/ Limenimizer
    \/ P1_Resample
    \/ P2_ProcessASS
    \/ P2_ProcessASSHang
    \/ MainUnsupported
    \/ MainASS
    \/ MainHang
    \/ MainName
    \/ MainWrite
    \/ MainWriteFails

Spec == Init /\ [][Next]_vars

-----------------------------------------------------------------------------
(* The properties.  What they read off a text is read independently of the *)
(* functions under test.                                                   *)

\* the first line of text that starts with prefix ("" when there is none)
LineOf(text, prefix) ==
    LET lines == Split(text, "\n")
        c     == {k \in 1..Len(lines) : HasPrefix(lines[k], prefix)}
    IN  IF c = {} THEN "" ELSE lines[Min(c)]

\* the field names of the first Format: line of text, lower case
FormatNames(text) ==
    LET parts == Split(From(LineOf(text, "Format:"), Len("Format:") + 1), ",")
    IN  [k \in 1..Len(parts) |-> ToLower(TrimSpace(parts[k]))]

\* the numeral out is the numeral in times r, to the two fractional digits
\* the number format keeps (half a hundredth)
Near(out, in, r) ==
    LET o == ParseFloat(TrimSpace(out))
        i == ParseFloat(TrimSpace(in))
    IN  o.ok /\ i.ok /\ Abs(o.m * r.d - i.m * r.n) <= 5 * r.d

\* the numerals a and b have the same value
SameNumber(a, b) ==
    LET x == ParseFloat(TrimSpace(a))
        y == ParseFloat(TrimSpace(b))
    IN  x.ok /\ y.ok /\ x.m = y.m

\* the drawing path outPath has the tokens of inPath, every numeral times
\* rx or ry by its position in its pair and every other token as it was
PathScaled(inPath, outPath, rx, ry) ==
    LET it     == Fields(inPath)
        ot     == Fields(outPath)
        num(k) == ParseFloat(it[k]).ok
        pos(k) == Cardinality({j \in 1..(k - 1) : num(j)})
    IN  /\ Len(ot) = Len(it)
        /\ \A k \in 1..Len(it) :
              IF num(k)
              THEN /\ ParseFloat(ot[k]).ok
                   /\ ParseFloat(ot[k]).m * (IF pos(k) % 2 = 0 THEN rx ELSE ry).d
                      = ParseFloat(it[k]).m * (IF pos(k) % 2 = 0 THEN rx ELSE ry).n
              ELSE ot[k] = it[k]

\* C1: in scaleTags and in processOverrides a call whose input holds a
\* \t(...) leaves the \t loop after finitely many passes and returns.  A
\* pass is a function of the content alone, so a loop that exits never
\* passes from a content to the same content
C1_NoPassRepeatsContent ==
    [][(fn \in {"scaleTags", "processOverrides"} /\ pc = "loop" /\ pc' = "loop")
        => cur' # cur]_vars

\* C2: scaleTags on \t(0,500,\fs20\pos(10,10)) at ratio 2 has the result
\* \t(0,500,\fs40\pos(20,20)): from its tag rewrites on, the text it holds
\* is the input with every tag inside the \t scaled once, never twice
C2_NestedScaledOnce ==
    (/\ fn = "scaleTags"
     /\ arg = "\\t(0,500,\\fs20\\pos(10,10))"
     /\ srcW = 960 /\ srcH = 540
     /\ pc # "call")
    => cur = "\\t(0,500,\\fs40\\pos(20,20))"

\* C3: processASS of the application writes every Dialogue line with
\* MarginL and MarginR times ratioX and MarginV times ratioY, rounded
\* half-up to integers
C3_DialogueMarginsScaled ==
    (fn = "processASS" /\ pc = "done") =>
        LET i == SplitN(LineOf(arg, "Dialogue:"), ",", 10)
            o == SplitN(LineOf(cur, "Dialogue:"), ",", 10)
        IN  /\ Len(o) = 10
            /\ o[6] = Itoa(FloorHalf(ParseFloat(i[6]).m, RX))
            /\ o[7] = Itoa(FloorHalf(ParseFloat(i[7]).m, RX))
            /\ o[8] = Itoa(FloorHalf(ParseFloat(i[8]).m, RY))

\* C4: scaleTags on a block without \t( rewrites every \pos(x,y) and
\* \org(x,y) to the same tag with x times ratioX and y times ratioY (in the
\* number format of the program), and \pos(100,200) at ratio 1.5 to exactly
\* \pos(150,300)
C4_TagScaled(re) ==
    LET im == FindAll(re, arg)
        om == FindAll(re, cur)
    IN  /\ Len(om) = Len(im)
        /\ \A k \in 1..Len(im) :
              /\ Near(om[k].sub[2], im[k].sub[2], RX)
              /\ Near(om[k].sub[3], im[k].sub[3], RY)

C4_PosOrgScaled ==
    (fn = "scaleTags" /\ pc = "done" /\ ~Contains(arg, "\\t(")) =>
        /\ C4_TagScaled(rePos)
        /\ C4_TagScaled(reOrg)
        /\ (arg = "\\pos(100,200)" /\ srcW = 1280 /\ srcH = 720) => cur = "\\pos(150,300)"

C4_Witness ==
    /\ fn = "scaleTags" /\ pc = "done"
    /\ arg = "\\pos(100,200)" /\ srcW = 1280 /\ srcH = 720
    /\ cur = "\\pos(150,300)"

\* C5: processASS of resampleASSv2.go and processOverrides of part_002 write
\* every \move(x1,y1,x2,y2,t1,t2) with t1 and t2 present and of unchanged
\* value and the four coordinates times ratioX, ratioY, ratioX, ratioY
C5_reMove6 ==
    <<<<Lit("\\move("), WS, NumA, WS, Lit(","), WS, NumA, WS, Lit(","), WS, NumA, WS,
        Lit(","), WS, NumA, WS, Lit(","), WS, NumA, WS, Lit(","), WS, NumA, WS,
        Lit(")")>>>>

C5_MoveKeepsTimes ==
    (fn \in {"V2_processASS", "processOverrides"} /\ pc = "done") =>
        LET im == FindAll(C5_reMove6, arg)
            om == FindAll(C5_reMove6, cur)
        IN  /\ Len(om) = Len(im)
            /\ \A k \in 1..Len(im) :
                  /\ Near(om[k].sub[2], im[k].sub[2], RX)
                  /\ Near(om[k].sub[3], im[k].sub[3], RY)
                  /\ Near(om[k].sub[4], im[k].sub[4], RX)
                  /\ Near(om[k].sub[5], im[k].sub[5], RY)
                  /\ SameNumber(om[k].sub[6], im[k].sub[6])
                  /\ SameNumber(om[k].sub[7], im[k].sub[7])

\* C6: scaleTags writes every \clip(x1,y1,x2,y2) and \iclip(x1,y1,x2,y2) of
\* four bare numbers with each argument replaced by its own scaled value:
\* x1 and x2 times ratioX, y1 and y2 times ratioY
C6_reClipRect ==
    <<<<Lit("\\"), CLit("iclip"), Lit("("), WS, NumA, WS, Lit(","), WS, NumA, WS,
        Lit(","), WS, NumA, WS, Lit(","), WS, NumA, WS, Lit(")")>>,
      <<Lit("\\"), CLit("clip"), Lit("("), WS, NumA, WS, Lit(","), WS, NumA, WS,
        Lit(","), WS, NumA, WS, Lit(","), WS, NumA, WS, Lit(")")>>>>

C6_RectClipScaled ==
    (fn = "scaleTags" /\ pc = "done") =>
        LET im == FindAll(C6_reClipRect, arg)
            om == FindAll(C6_reClipRect, cur)
        IN  /\ Len(om) = Len(im)
            /\ \A k \in 1..Len(im) :
                  /\ om[k].sub[2] = im[k].sub[2]
                  /\ Near(om[k].sub[3], im[k].sub[3], RX)
                  /\ Near(om[k].sub[4], im[k].sub[4], RY)
                  /\ Near(om[k].sub[5], im[k].sub[5], RX)
                  /\ Near(om[k].sub[6], im[k].sub[6], RY)

\* C7: processASS of resampleASSv2.go writes a vector clip \clip(m ...)
\* with its command letters and its number of tokens unchanged and every
\* coordinate times the ratio of its axis, once
C7_reClipVec == <<<<Lit("\\clip("), MPath, Lit(")")>>>>

C7_VectorClipScaledOnce ==
    (fn = "V2_processASS" /\ pc = "done") =>
        LET im == FindAll(C7_reClipVec, arg)
            om == FindAll(C7_reClipVec, cur)
        IN  /\ Len(om) = Len(im)
            /\ \A k \in 1..Len(im) : PathScaled(im[k].sub[2], om[k].sub[2], RX, RY)

\* C8: processEventText of part_001 writes a vector \clip or \iclip of the
\* form <scale>,<path> with the scale numeral as it was and every
\* coordinate of the path times ratioX or ratioY by its position in its pair
C8_reClipScale ==
    <<<<Lit("\\"), CLit("iclip"), Lit("("), WS, NumA, WS, Lit(","), NotRP, Lit(")")>>,
      <<Lit("\\"), CLit("clip"), Lit("("), WS, NumA, WS, Lit(","), NotRP, Lit(")")>>>>

C8_ClipScaleKept ==
    (fn = "processEventText" /\ pc = "done") =>
        LET im == FindAll(C8_reClipScale, arg)
            om == FindAll(C8_reClipScale, cur)
        IN  \A k \in 1..Len(im) :
                P1_HasLetter(im[k].sub[4]) =>
                    /\ k <= Len(om)
                    /\ om[k].sub[2] = im[k].sub[2]
                    /\ om[k].sub[3] = im[k].sub[3]
                    /\ PathScaled(im[k].sub[4], om[k].sub[4], RX, RY)

C8_Witness ==
    /\ fn = "processEventText" /\ pc = "done"
    /\ arg = "{\\clip(4,m 0 0 l 100 0 100 100 l 0 100)}x"
    /\ srcW = 480 /\ srcH = 1080
    /\ cur = "{\\clip(4, m 0 0 l 400 0 400 100 l 0 100)}x"

\* C9: processASS of the application writes the fontsize of every Style
\* line whose fontsize parses as a number as an integer, the input value
\* times ratioY rounded half-up
C9_StyleFontsizeRounded ==
    (fn = "processASS" /\ pc = "done") =>
        LET k == fieldIdx(FormatNames(arg), "fontsize")
            i == Split(LineOf(arg, "Style: Default"), ",")
            o == Split(LineOf(cur, "Style: Default"), ",")
        IN  ParseFloat(TrimSpace(i[k])).ok =>
                /\ Len(o) >= k
                /\ TrimSpace(o[k]) = Itoa(FloorHalf(ParseFloat(TrimSpace(i[k])).m, RY))

\* C10: limenimizerASS sets to "Basic Comical NC" the column of a Style
\* line that the styles Format line names fontname, and leaves every column
\* of another name as it was
C10_FontnameColumnOnly ==
    (fn = "limenimizerASS" /\ pc = "done") =>
        LET names == FormatNames(arg)
            i == Split(LineOf(arg, "Style: Default"), ",")
            o == Split(LineOf(cur, "Style: Default"), ",")
        IN  /\ Len(o) = Len(i)
            /\ \A k \in 1..Len(i) :
                  IF names[k] = "fontname" THEN o[k] = "Basic Comical NC"
                  ELSE o[k] = i[k]

\* the lines of text that start with prefix
LinesOf(text, prefix) ==
    SelectSeq(Split(text, "\n"), LAMBDA l : HasPrefix(l, prefix))

\* the values, in thousandths, of the numerals of s in their order
NumeralValues(s) ==
    LET t == FindAllString(A_reNumber, s)
    IN  [k \in 1..Len(t) |-> ParseFloat(t[k]).m]

\* C11: processASS of the application, given a script whose styles section
\* already holds the reference style line, adds no second one: the script
\* it returns has exactly one Style line named res
C11_OneResStyle ==
    (/\ fn = "processASS" /\ pc = "done"
     /\ Len(LinesOf(arg, resStyleLine)) > 0)
    => Len(LinesOf(cur, "Style: res,")) = 1

\* C12: processASS of resampleASSv2.go writes a Dialogue line of fewer than
\* ten comma-separated fields as it was, byte for byte
C12_ShortDialogueKept ==
    (/\ fn = "V2_processASS" /\ pc = "done"
     /\ Len(Split(LineOf(arg, "Dialogue:"), ",")) < 10)
    => LineOf(cur, "Dialogue:") = LineOf(arg, "Dialogue:")

\* C13: processASS of the application writes a Style line whose number of
\* fields is not that of the styles Format line as it was, and still
\* rewrites the Style lines around it (they get the fixed font name)
C13_ShortStyleKept ==
    (fn = "processASS" /\ pc = "done") =>
        LET in == LinesOf(arg, "Style:")
            n  == Len(FormatNames(arg))
        IN  \A k \in 1..Len(in) :
               IF Len(Split(From(in[k], Len("Style:") + 1), ",")) # n
               THEN Len(LinesOf(cur, in[k])) > 0
               ELSE Len(LinesOf(cur, Split(in[k], ",")[1] \o ",Basic Comical NC,")) > 0
                    \/ FormatNames(arg)[2] # "fontname"

\* the first line of text that starts with prefix, the line ends of text
\* being "\r\n" or "\n"
C14_LineOf(text, prefix) == LineOf(ReplaceAllLit(text, "\r\n", "\n"), prefix)

\* C14: ProcessASS of part_001 and processASS of part_002, given a
\* non-empty script that declares no PlayResX and no PlayResY, return a
\* rewritten script that holds the lines PlayResX: 1920 and PlayResY: 1080,
\* never the empty string and never the input as it was
C14_DefaultsNeverFail ==
    (/\ fn \in {"P1_ProcessASS", "P2_processASS"} /\ pc = "done"
     /\ arg # ""
     /\ ~Contains(ToLower(arg), "playres"))
    => /\ cur # ""
       /\ cur # arg
       /\ C14_LineOf(cur, "PlayResX:") = "PlayResX: 1920"
       /\ C14_LineOf(cur, "PlayResY:") = "PlayResY: 1080"

\* C15: processASS of part_002 writes a Dialogue line whose text holds
\* commas with the whole text as its last field: for a Format of n names,
\* everything after the (n-1)-th comma (a text without override blocks is
\* written as it was)
C15_PayloadKept ==
    (fn = "P2_processASS" /\ pc = "done") =>
        LET n   == Len(Split(C14_LineOf(arg, "Format: Layer"), ","))
            in  == SplitN(C14_LineOf(arg, "Dialogue:"), ",", n)
            out == SplitN(C14_LineOf(cur, "Dialogue:"), ",", n)
        IN  (n >= 2 /\ Len(in) = n /\ Contains(in[n], ",") /\ ~Contains(in[n], "{"))
            => (Len(out) = n /\ out[n] = in[n])

\* C16: processASS of part_002 at source 1280x720 writes a Dialogue line
\* whose text holds {\pos(100,200)} with \pos(150,300) in its place
C16_PayloadRewritten ==
    (/\ fn = "P2_processASS" /\ pc = "done"
     /\ srcW = 1280 /\ srcH = 720
     /\ Contains(C14_LineOf(arg, "Dialogue:"), "{\\pos(100,200)}"))
    => /\ Contains(C14_LineOf(cur, "Dialogue:"), "\\pos(150,300)")
       /\ ~Contains(C14_LineOf(cur, "Dialogue:"), "\\pos(100,200)")

\* C17: processASS of the application at source 1920x1080, on a script
\* without \t(, writes every numeric field of the Style line and every
\* numeral of the Dialogue line with the value it had, whatever the number
\* of its fractional digits
C17_RatioOneKeepsValues ==
    (/\ fn = "processASS" /\ pc = "done"
     /\ srcW = targetPlayResX /\ srcH = targetPlayResY
     /\ ~Contains(arg, "\\t("))
    => LET is == Split(LineOf(arg, "Style: Default"), ",")
           os == Split(LineOf(cur, "Style: Default"), ",")
       IN  /\ Len(os) = Len(is)
           /\ \A k \in 1..Len(is) :
                 ParseFloat(is[k]).ok => SameNumber(os[k], is[k])
           /\ NumeralValues(LineOf(cur, "Dialogue:"))
              = NumeralValues(LineOf(arg, "Dialogue:"))

\* C18: the text processASS of resampleASSv2.go returns for a non-empty
\* input ends with a line terminator
C18_EndsWithNewline ==
    (fn = "V2_processASS" /\ pc = "done" /\ arg # "") => HasSuffix(cur, "\n")

\* C19: main on an .ass input that cannot be read: processASS returns an
\* error and the empty string, and the only step main takes is to show the
\* error dialog and return: no output name is computed and no file is
\* written
C19_ReadErrorWritesNothing ==
    [][(/\ fn = "main"
        /\ ToLower(Ext(arg)) = ".ass"
        /\ \A f \in disk : f[1] # arg)
       => /\ pc = "call" /\ pc' = "done"
          /\ cur' = ""
          /\ shown' = Append(shown, assErrorDialog)
          /\ output' = "" /\ output = ""
          /\ disk' = disk]_vars

C19_Witness ==
    /\ fn = "main" /\ pc = "done"
    /\ ToLower(Ext(arg)) = ".ass"
    /\ \A f \in disk : f[1] # arg
    /\ disk # {}
    /\ shown = <<assErrorDialog>>

\* C20: scaleXYList, on the path of a vector \clip(m ...), scales the
\* numerals as x and y in turn, starting again with x after every command
\* letter: the first numeral after a letter is times ratioX, whatever the
\* number of numerals before the letter
C20_PathScaledFromLetter(inPath, outPath, rx, ry) ==
    LET it     == Fields(inPath)
        ot     == Fields(outPath)
        num(k) == ParseFloat(it[k]).ok
        last(k) == Max({0} \cup {j \in 1..(k - 1) : ~num(j)})
        r(k)   == IF (k - last(k)) % 2 = 1 THEN rx ELSE ry
    IN  /\ Len(ot) = Len(it)
        /\ \A k \in 1..Len(it) :
              IF num(k)
              THEN /\ ParseFloat(ot[k]).ok
                   /\ ParseFloat(ot[k]).m * r(k).d = ParseFloat(it[k]).m * r(k).n
              ELSE ot[k] = it[k]

C20_LetterResetsToX ==
    (/\ fn = "scaleTags" /\ pc # "call"
     /\ HasPrefix(arg, "\\clip(m ") /\ HasSuffix(arg, ")"))
    => /\ HasPrefix(cur, "\\clip(") /\ HasSuffix(cur, ")")
       /\ C20_PathScaledFromLetter(SubSeq(arg, 7, Len(arg) - 1),
                                   SubSeq(cur, 7, Len(cur) - 1), RX, RY)

\* the positions of the lines of a text that are section headers
HeaderLines(lines) ==
    {j \in 1..Len(lines) : HasPrefix(TrimSpace(lines[j]), "[")}

\* C21: limenimizerASS writes the reference style line after the last
\* Style: line of the [V4+ Styles] section and before the first section
\* header that follows [V4+ Styles], whatever that section is
C21_ResStyleInStylesSection ==
    (/\ fn = "limenimizerASS" /\ pc = "done"
     /\ LineOf(arg, "[V4+ Styles]") # "" /\ LineOf(arg, "Style:") # "")
    => LET o    == Split(cur, "\n")
           s    == Min({j \in 1..Len(o) : HasPrefix(o[j], "[V4+ Styles]")})
           nxt  == Min({j \in HeaderLines(o) : j > s} \cup {Len(o) + 1})
           res  == {j \in 1..Len(o) : o[j] = V2_resStyle}
       IN  /\ res # {}
           /\ s < Max(res) /\ Max(res) < nxt
           /\ \A j \in (s + 1)..(nxt - 1) : HasPrefix(o[j], "Style:") => j <= Max(res)

\* C22: processASS of resampleASSv2.go, given a script without PlayRes
\* lines, writes PlayResX: 1920 and PlayResY: 1080 as the two lines after
\* the [Script Info] header; when the script has no such header, the
\* output starts with a [Script Info] header followed by the two lines
C22_PlayResAfterHeader ==
    (/\ fn = "V2_processASS" /\ pc = "done"
     /\ ~Contains(ToLower(arg), "playres"))
    => LET o == Split(cur, "\n")
           h == {j \in 1..Len(o) : TrimSpace(o[j]) = "[Script Info]"}
           s == IF LineOf(arg, "[Script Info]") # "" /\ h # {} THEN Min(h) ELSE 1
       IN  /\ Len(o) >= s + 2
           /\ TrimSpace(o[s]) = "[Script Info]"
           /\ o[s + 1] = "PlayResX: 1920"
           /\ o[s + 2] = "PlayResY: 1080"

\* the column names of the Format: line of the [Events] section (the last
\* Format: line of a script), lower case
EventNames(text) ==
    LET f     == LinesOf(text, "Format:")
        parts == Split(From(f[Len(f)], Len("Format:") + 1), ",")
    IN  [k \in 1..Len(parts) |-> ToLower(TrimSpace(parts[k]))]

\* the column the events Format names text, the last one if none is
TextColumn(names) ==
    IF \E k \in 1..Len(names) : names[k] = "text"
    THEN Min({k \in 1..Len(names) : names[k] = "text"})
    ELSE Len(names)

\* C23: processASS of the application, given an events Format of k
\* columns with k other than 10 and a Dialogue line of exactly k fields,
\* scales the override tags of the column the Format names text (every
\* \fs value times ratioY) and writes every other column as it was
C23_TextColumnByFormat ==
    (/\ fn = "processASS" /\ pc = "done"
     /\ LineOf(arg, "[Events]") # "" /\ Len(LinesOf(arg, "Format:")) = 2
     /\ Len(EventNames(arg)) # 10
     /\ Len(Split(LineOf(arg, "Dialogue:"), ",")) = Len(EventNames(arg)))
    => LET k  == Len(EventNames(arg))
           t  == TextColumn(EventNames(arg))
           i  == SplitN(LineOf(arg, "Dialogue:"), ",", k)
           o  == SplitN(LineOf(cur, "Dialogue:"), ",", k)
           im == FindAll(reFs, i[t])
           om == FindAll(reFs, o[t])
       IN  /\ Len(o) = k
           /\ \A j \in (1..k) \ {t} : o[j] = i[j]
           /\ Len(om) = Len(im)
           /\ \A j \in 1..Len(im) : Near(om[j].sub[2], im[j].sub[2], RY)

\* the matches of re in s whose captured argument is no number
Unparsed(re, s) ==
    LET m == FindAll(re, s)
    IN  {m[k].sub[1] : k \in {j \in 1..Len(m) : ~ParseFloat(m[j].sub[2]).ok}}

\* C24: processASS of resampleASSv2.go writes a bare \fs or \bord tag
\* whose argument does not parse as a number (\fs1.2.3, \bord-) as it
\* was in the input, never as a tag of value 0
C24_UnparsedTagKept ==
    (/\ fn = "V2_processASS" /\ pc = "done"
     /\ Len(SplitN(LineOf(arg, "Dialogue:"), ",", 10)) = 10)
    => LET ti == SplitN(LineOf(arg, "Dialogue:"), ",", 10)[10]
           to == SplitN(LineOf(cur, "Dialogue:"), ",", 10)
       IN  \A b \in Unparsed(V2_reFS, ti) \cup Unparsed(V2_reBORD, ti) :
              /\ Len(to) = 10
              /\ Contains(to[10], b)
              /\ ~Contains(to[10], "\\fs0.000") /\ ~Contains(to[10], "\\bord0.000")

C25_reFscy == <<<<Lit("\\fscy"), NumB>>>>

\* the arguments of the matches of re in s, in their order
ArgsOf(re, s) ==
    LET m == FindAll(re, s)
    IN  [k \in 1..Len(m) |-> m[k].sub[2]]

\* a and b are numerals of the same values, one by one
SameNumbers(a, b) ==
    /\ Len(a) = Len(b)
    /\ \A k \in 1..Len(a) : SameNumber(a[k], b[k])

\* C25: ProcessASS of part_001 writes every \fscy with the value it had,
\* and every \fscx with the value it had when the aspect ratio of the
\* source is that of the target (1280x720: \fscx100\fscy100 stays)
C25_PercentTagsKept ==
    (/\ fn = "P1_ProcessASS" /\ pc = "done"
     /\ Contains(arg, "\\fscy"))
    => LET i == LineOf(arg, "Dialogue:")
           o == LineOf(cur, "Dialogue:")
       IN  /\ SameNumbers(ArgsOf(C25_reFscy, o), ArgsOf(C25_reFscy, i))
           /\ (srcW * P1_targetH = srcH * P1_targetW)
                 => SameNumbers(ArgsOf(V2_reFSCX, o), ArgsOf(V2_reFSCX, i))

\* the override blocks {...} of a text, in their order
BlocksOf(text) ==
    LET ms == FindAll(V2_reOverrideBlock, text)
    IN  [k \in 1..Len(ms) |-> ms[k].sub[1]]

\* the plain texts of a text: the one in front of its first override
\* block, then the one after each block
PlainsOf(text) ==
    LET ms == FindAll(V2_reOverrideBlock, text)
    IN  [k \in 1..(Len(ms) + 1) |->
            SubSeq(text, IF k = 1 THEN 1 ELSE ms[k - 1].end,
                   IF k <= Len(ms) THEN ms[k].start - 1 ELSE Len(text))]

\* the drawing level a block sets: the number of its first \p tag, 0 when
\* it has none
DrawingLevel(block) ==
    LET m == FindAll(P1_rePlevel, block)
    IN  IF Len(m) = 0 THEN 0 ELSE Atoi(m[1].sub[2]).v

\* C26: processEventText of part_001 writes the plain text after an
\* override block with \pN, N > 0, with every numeral times ratioX or
\* ratioY by turns and every other token as it was (m 5 5 l 10 5 at ratio
\* 1.5 gives m 7.5 7.5 l 15 7.5); the plain text after a block with \p0
\* or without \p, and the one in front of the first block, is unchanged
C26_DrawingPayloadScaled ==
    (/\ fn = "processEventText" /\ pc = "done"
     /\ Contains(arg, "\\p1"))
    => LET bi == BlocksOf(arg)
           pi == PlainsOf(arg)
           po == PlainsOf(cur)
       IN  /\ Len(po) = Len(pi)
           /\ po[1] = pi[1]
           /\ \A k \in 1..Len(bi) :
                  IF DrawingLevel(bi[k]) > 0
                  THEN PathScaled(pi[k + 1], po[k + 1], RX, RY)
                  ELSE po[k + 1] = pi[k + 1]

\* the number of characters c in s
CountOf(s, c) == Cardinality({i \in 1..Len(s) : At(s, i) = c})

\* C27: processASS of the application, on a Dialogue text whose override
\* blocks hold no \t(, writes as many {...} blocks as the text had, block
\* k of the output being the rewrite of block k of the input, with the
\* plain text around the blocks as it was and with as many { and } as the
\* text had
C27_BlocksInPlace ==
    (/\ fn = "processASS" /\ pc = "done"
     /\ Len(SplitN(LineOf(arg, "Dialogue:"), ",", 10)) = 10
     /\ ~Contains(LineOf(arg, "Dialogue:"), "\\t("))
    => LET ti == SplitN(LineOf(arg, "Dialogue:"), ",", 10)[10]
           to == SplitN(LineOf(cur, "Dialogue:"), ",", 10)[10]
           bi == BlocksOf(ti)
           bo == BlocksOf(to)
       IN  /\ Len(bo) = Len(bi)
           /\ PlainsOf(to) = PlainsOf(ti)
           /\ \A k \in 1..Len(bi) :
                  bo[k] = "{" \o scaleTagsCall(scaleTagsRewrites(overrideInside(bi[k]), RX, RY)).text
                          \o "}"
           /\ CountOf(to, "{") = CountOf(ti, "{")
           /\ CountOf(to, "}") = CountOf(ti, "}")

\* C28: processASS of the application, run on the text it returned for a
\* script without \t(, returns that text: the second run changes nothing
C28_SecondRunSame ==
    [][(fn = "processASS" /\ pc = "done" /\ pc' = "again" /\ ~Contains(arg, "\\t("))
        => cur' = cur]_vars

\* the lines of the [Script Info] section of a text: from its header to
\* the line in front of the next section header
ScriptInfoLines(text) ==
    LET l == Split(text, "\n")
        h == Min({j \in 1..Len(l) : l[j] = "[Script Info]"} \cup {Len(l) + 1})
        e == Min({j \in HeaderLines(l) : j > h} \cup {Len(l) + 1})
    IN  SubSeq(l, h, e - 1)

\* C29: processASS of the application, given a script that declares
\* PlayResX and PlayResY, changes in [Script Info] those two lines only:
\* the section has as many lines as before, blank lines included, and
\* every other line is as it was
C29_OnlyPlayResLinesChange ==
    (/\ fn = "processASS" /\ pc = "done"
     /\ LineOf(arg, "PlayResX:") # "" /\ LineOf(arg, "PlayResY:") # "")
    => LET i == ScriptInfoLines(arg)
           o == ScriptInfoLines(cur)
       IN  /\ Len(o) = Len(i)
           /\ \A k \in 1..Len(i) :
                  o[k] = IF HasPrefix(i[k], "PlayResX:") THEN "PlayResX: 1920"
                         ELSE IF HasPrefix(i[k], "PlayResY:") THEN "PlayResY: 1080"
                         ELSE i[k]

\* C30: processASS of resampleASSv2.go, given a script with at most one
\* PlayResX line and at most one PlayResY line, returns a script with
\* exactly one PlayResX line, PlayResX: 1920, and exactly one PlayResY
\* line, PlayResY: 1080
C30_OnePlayResPair ==
    (/\ fn = "V2_processASS" /\ pc = "done"
     /\ Len(LinesOf(arg, "PlayResX")) <= 1 /\ Len(LinesOf(arg, "PlayResY")) <= 1)
    => /\ LinesOf(cur, "PlayResX") = <<"PlayResX: 1920">>
       /\ LinesOf(cur, "PlayResY") = <<"PlayResY: 1080">>
=============================================================================
